---- MODULE Spec2Model ----
(***************************************************************************)
(* The statement-level execute / pause / resume engine of fetchflow        *)
(* (SequentialFetchVM in sequential-fetch-vm-lib.js).                      *)
(*                                                                         *)
(* The embedded interpreter and the statement parser are external          *)
(* collaborators.  Scripts are modelled over a small statement language    *)
(* whose evaluation, textual rewriting (declaration rewriting, fetch       *)
(* substitution) and sentinel behaviour follow what the engine's code      *)
(* does with the corresponding JavaScript text.                            *)
(***************************************************************************)
EXTENDS Integers, Sequences, FiniteSets, TLC

(***************************************************************************)
(* Bounds of the model.                                                    *)
(***************************************************************************)
\* longest script (number of top-level statements) submitted to execute
MaxLen == 2
\* Date.now() ranges over 0..MaxClock
MaxClock == 0

\* most submissions executed on one engine instance
MaxSubmits == 2

\* calls issued on one engine in the concurrent use of it
MaxCalls == 3

\* iterations of the loop of the loop-fetch test: for (let i = 1; i <= 3; i++)
LoopCount == 3

\* the global names scripts use; _t is a script's own name with a leading '_'
Names == {"x", "y", "_t"}

\* the two reserved slots of globalThis
ReservedSlots == {"__fetchPause", "__currentFetchData"}

\* the entries the host installs on globalThis: setupConsole and setupFetch
HostEntries == {"console", "fetch"}

\* the own property names of globalThis that are not interpreter intrinsics
GlobalKeys == Names \cup ReservedSlots \cup HostEntries

\* key.startsWith('_')
StartsWithUnderscore(key) == key \in {"_t"} \cup ReservedSlots

\* the entries of the denylist that can be own property names here; the other
\* entries name intrinsics (Object, Array, ..., Infinity)
Denylist == {"fetch", "console"}

(***************************************************************************)
(* Interpreter values.  A sentinel is the string                           *)
(* "__FETCH_PAUSE__fetch_<now>_<counter>"; it is kept structured.          *)
(***************************************************************************)
Undef == [t |-> "undefined"]
Num(k) == [t |-> "number", k |-> k]
\* an object { title: k }
Obj(k) == [t |-> "object", title |-> k]
\* the string  `fetch_${Date.now()}_${++this.fetchCounter}`
RequestId(now, c) == [now |-> now, c |-> c]
\* the string  `__FETCH_PAUSE__${requestId}`
Marker(id) == [t |-> "string", prefix |-> "__FETCH_PAUSE__", rest |-> id]
\* a global property that does not exist
Absent == [t |-> "absent"]
\* an object that refers to itself: JSON.stringify throws on it
Cyclic == [t |-> "cyclic"]
\* in place of a value: the evaluation does not return
Never == [t |-> "never"]
\* a function or an object of functions (fetch, console): no JSON form
HostObject == [t |-> "function"]

\* mutant: any defined value is taken for a marker
IsPauseMarkerLoose(v) == v.t \notin {"undefined", "absent"}

\* typeof value === 'string' && value.startsWith('__FETCH_PAUSE__')
IsPauseMarker(v) == v.t = "string" /\ v.prefix = "__FETCH_PAUSE__"

\* foundPauseMarker.replace('__FETCH_PAUSE__', '')
FetchIdOf(v) == v.rest

(***************************************************************************)
(* URLs: a literal URL, or the concatenation  base + i  built in a loop.   *)
(***************************************************************************)
Url(u) == [u |-> u, i |-> 0]
UrlPlus(u, i) == [u |-> u, i |-> i]

(***************************************************************************)
(* Expressions of the statement language.                                  *)
(***************************************************************************)
\* k
Lit(k) == [op |-> "lit", k |-> k]
\* name
Var(n) == [op |-> "var", name |-> n]
\* name.title
Prop(n) == [op |-> "prop", name |-> n]
\* fetch("u")
Fetch(u) == [op |-> "fetch", url |-> u]
\* fetch("u").title
FetchProp(u) == [op |-> "fetchprop", url |-> u]
\* [fetch("u1"), fetch("u2")][0]
FirstOf(u1, u2) == [op |-> "firstof", url |-> u1, url2 |-> u2]
\* fetch("u") || name
FetchOr(u, n) == [op |-> "fetchor", url |-> u, name |-> n]
\* globalThis.__currentFetchData
DataRef == [op |-> "data"]
\* globalThis.__currentFetchData.title
DataProp == [op |-> "dataprop"]
\* [globalThis.__currentFetchData, globalThis.__currentFetchData][0]
FirstOfData == [op |-> "firstofdata"]
\* globalThis.__currentFetchData || name
DataOr(n) == [op |-> "dataor", name |-> n]

(***************************************************************************)
(* Top-level statements.                                                   *)
(***************************************************************************)
\* e;
ExprStmt(e) == [kind |-> "expr", e |-> e]
\* name = e;
Assign(n, e) == [kind |-> "assign", name |-> n, e |-> e]
Declarator(n, e) == [name |-> n, e |-> e]
\* the place of the initializer in a declarator without one:  let x;
NoInit == [op |-> "none"]
\* const n1 = e1, n2 = e2;
Decl(ds) == [kind |-> "decl", decls |-> ds]
\* globalThis.n1 = e1, n2 = e2;      (a rewritten declaration)
Comma(ds) == [kind |-> "comma", decls |-> ds]
\* for (let i = 1; i <= 3; i++) { const post = fetch("u" + i); post.title; }
\*   keep = "none": the body is as above
\*   keep = "last": the body is  { x = fetch("u" + i); }
ForLoop(u, keep) == [kind |-> "for", base |-> u, keep |-> keep, replaced |-> FALSE]
\* throw 1;
Throw == [kind |-> "throw"]
\* Object.defineProperty(globalThis, "n", {value: k}).n;   a property that is
\* neither writable nor configurable
DefineConst(n, k) == [kind |-> "defineconst", name |-> n, k |-> k]
\* n = {}, n.self = n, 1;
MakeCyclic(n) == [kind |-> "cyclic", name |-> n]
\* for (;;) {}
Forever == [kind |-> "forever"]
\* Object = 1;   the script overwrites the intrinsic the engine's own code uses
ClobberObject == [kind |-> "clobber"]
\* the line break execute puts before each submission in allCode
Newline == [kind |-> "newline"]
\* text that is no statement for the parser nor for the interpreter:  const = ;
Garbage == [kind |-> "garbage"]
\* a source the parser rejected, kept whole as one statement
Unparsed(code) == [kind |-> "unparsed", text |-> code]

(***************************************************************************)
(* The engine: the fields of a SequentialFetchVM together with the global  *)
(* scope of its interpreter context.  The two reserved slots               *)
(* globalThis.__fetchPause and globalThis.__currentFetchData are kept      *)
(* apart from the script's own global bindings.                            *)
(***************************************************************************)
NoGlobals == [n \in Names |-> Absent]

\* How each name is bound in a new context: not at all.  A name is later an
\* ordinary property of globalThis ("property"), a property that is not
\* writable ("readonly"), or a binding of the global lexical environment
\* ("lexical": let at top level), which is no property of globalThis.
NoScope == [n \in Names |-> "property"]

\* new SequentialFetchVM() followed by initialize().  intrinsics: the global
\* Object is still the intrinsic one.
NewVM ==
  [ allCode               |-> << >>,
    fetchCounter          |-> 0,
    statements            |-> << >>,
    currentStatementIndex |-> 0,
    globals               |-> NoGlobals,
    scope                 |-> NoScope,
    intrinsics            |-> TRUE,
    fetchPause            |-> Absent,
    currentFetchData      |-> Absent ]

\* mutant: the URL recorded for the request depends on the time of the call
FetchFuncTimed(vm, now, url) ==
  LET requestId == RequestId(now, vm.fetchCounter + 1)
  IN  [ err |-> FALSE,
        v   |-> Marker(requestId),
        vm  |-> [vm EXCEPT !.fetchCounter = vm.fetchCounter + 1,
                           !.fetchPause = [t |-> "object", id |-> requestId,
                                           url |-> UrlPlus(url.u, now + 1),
                                           options |-> "{}"]] ]

\* mutant: the request counter is read but not incremented
FetchFuncUncounted(vm, now, url) ==
  LET requestId == RequestId(now, vm.fetchCounter + 1)
  IN  [ err |-> FALSE,
        v   |-> Marker(requestId),
        vm  |-> [vm EXCEPT !.fetchPause = [t |-> "object", id |-> requestId,
                                           url |-> url, options |-> "{}"]] ]

\* The function installed as the global fetch: allocates a request id, stores
\* the descriptor in globalThis.__fetchPause and returns the marker string.
FetchFunc(vm, now, url) ==
  LET requestId == RequestId(now, vm.fetchCounter + 1)
  IN  [ err |-> FALSE,
        v   |-> Marker(requestId),
        vm  |-> [vm EXCEPT !.fetchCounter = vm.fetchCounter + 1,
                           !.fetchPause = [t |-> "object", id |-> requestId,
                                           url |-> url, options |-> "{}"]] ]

Ok(vm, v) == [err |-> FALSE, v |-> v, vm |-> vm]
Raise(vm) == [err |-> TRUE, v |-> Undef, vm |-> vm]
\* evalCode does not return: the context has no interrupt handler
Diverge(vm) == [err |-> TRUE, v |-> Never, vm |-> vm]

\* v.title  for a value v
TitleOf(vm, v) ==
  CASE v.t = "undefined" -> Raise(vm)
    [] v.t = "object"    -> Ok(vm, Num(v.title))
    [] OTHER             -> Ok(vm, Undef)

\* globalThis.__currentFetchData  (undefined when the slot is not set)
CurrentFetchData(vm) ==
  IF vm.currentFetchData = Absent THEN Undef ELSE vm.currentFetchData

\* reading the identifier n: a ReferenceError when there is no such binding
ReadName(vm, n) ==
  IF vm.globals[n] = Absent THEN Raise(vm) ELSE Ok(vm, vm.globals[n])

\* ToBoolean: undefined is falsy; the numbers, objects and strings here are truthy
Truthy(v) == v.t # "undefined"

\* Evaluation of an expression by the interpreter.
EvalExpr(vm, e, now) ==
  CASE e.op = "lit"  -> Ok(vm, Num(e.k))
    [] e.op = "var"  -> ReadName(vm, e.name)
    [] e.op = "prop" -> IF vm.globals[e.name] = Absent THEN Raise(vm)
                        ELSE TitleOf(vm, vm.globals[e.name])
    [] e.op = "fetch" -> FetchFunc(vm, now, e.url)
    [] e.op = "fetchprop" ->
         LET f == FetchFunc(vm, now, e.url)
         IN  TitleOf(f.vm, f.v)
    [] e.op = "firstof" ->
         LET first == FetchFunc(vm, now, e.url)
         IN  Ok(FetchFunc(first.vm, now, e.url2).vm, first.v)
    [] e.op = "data" -> Ok(vm, CurrentFetchData(vm))
    [] e.op = "dataprop" -> TitleOf(vm, CurrentFetchData(vm))
    [] e.op = "firstofdata" -> Ok(vm, CurrentFetchData(vm))
    [] e.op = "fetchor" ->
         LET f == FetchFunc(vm, now, e.url)
         IN  IF Truthy(f.v) THEN f ELSE ReadName(f.vm, e.name)
    [] e.op = "dataor" ->
         IF Truthy(CurrentFetchData(vm)) THEN Ok(vm, CurrentFetchData(vm))
         ELSE ReadName(vm, e.name)

\* n = v  in sloppy mode: writing a property that is not writable does
\* nothing; a lexical binding of that name takes the value
SetGlobal(vm, n, v) ==
  IF vm.scope[n] = "readonly" THEN vm ELSE [vm EXCEPT !.globals[n] = v]

\* let n1 = e1, n2, ...  left as a declaration: a SyntaxError when one of the
\* names is already a lexical binding, else the bindings are created in order
RECURSIVE EvalLexical(_, _, _)
EvalLexical(vm, ds, now) ==
  IF ds = << >> THEN Ok(vm, Undef)
  ELSE LET r == IF Head(ds).e = NoInit THEN Ok(vm, Undef)
                ELSE EvalExpr(vm, Head(ds).e, now)
       IN  IF r.err THEN r
           ELSE EvalLexical([r.vm EXCEPT !.globals[Head(ds).name] = r.v,
                                         !.scope[Head(ds).name] = "lexical"],
                            Tail(ds), now)

\* n1 = e1, n2 = e2, ...  evaluated left to right; the value is the last one
RECURSIVE EvalComma(_, _, _, _)
EvalComma(vm, ds, now, last) ==
  IF ds = << >> THEN Ok(vm, last)
  ELSE IF Head(ds).e = NoInit
  THEN \* a later declarator without initializer is the expression  n
       LET r == ReadName(vm, Head(ds).name)
       IN  IF r.err THEN r ELSE EvalComma(r.vm, Tail(ds), now, r.v)
  ELSE LET r == EvalExpr(vm, Head(ds).e, now)
       IN  IF r.err THEN r
           ELSE EvalComma(SetGlobal(r.vm, Head(ds).name, r.v), Tail(ds), now, r.v)

\* the loop statement, iterations i..LoopCount
RECURSIVE EvalFor(_, _, _, _, _)
EvalFor(vm, s, now, i, last) ==
  IF i > LoopCount THEN Ok(vm, last)
  ELSE LET f == IF s.replaced THEN Ok(vm, CurrentFetchData(vm))
                ELSE FetchFunc(vm, now, UrlPlus(s.base, i))
       IN  IF s.keep = "last"
           THEN EvalFor(SetGlobal(f.vm, "x", f.v), s, now, i + 1, f.v)
           ELSE LET t == TitleOf(f.vm, f.v)
                IN  IF t.err THEN t ELSE EvalFor(t.vm, s, now, i + 1, t.v)

\* vm.evalCode(statement): { value } or { error }
EvalCode(vm, s, now) ==
  CASE s.kind = "expr"   -> EvalExpr(vm, s.e, now)
    [] s.kind = "assign" ->
         LET r == EvalExpr(vm, s.e, now)
         IN  IF r.err THEN r ELSE Ok(SetGlobal(r.vm, s.name, r.v), r.v)
    [] s.kind = "comma"  -> EvalComma(vm, s.decls, now, Undef)
    [] s.kind = "for"    -> EvalFor(vm, s, now, 1, Undef)
    [] s.kind = "throw"  -> Raise(vm)
    \* a SyntaxError, reported before any part of the text is run
    [] s.kind = "unparsed" -> Raise(vm)
    [] s.kind = "decl" ->
         IF \E k \in DOMAIN s.decls : vm.scope[s.decls[k].name] = "lexical"
         THEN Raise(vm)
         ELSE EvalLexical(vm, s.decls, now)
    [] s.kind = "defineconst" ->
         IF ~vm.intrinsics
              \/ (vm.scope[s.name] = "readonly" /\ vm.globals[s.name] # Num(s.k))
         THEN Raise(vm)
         ELSE Ok([vm EXCEPT !.globals[s.name] = Num(s.k),
                            !.scope[s.name] = "readonly"], Num(s.k))
    [] s.kind = "cyclic" -> Ok(SetGlobal(vm, s.name, Cyclic), Num(1))
    [] s.kind = "forever" -> Diverge(vm)
    [] s.kind = "clobber" -> Ok([vm EXCEPT !.intrinsics = FALSE], Num(1))

(***************************************************************************)
(* Text transformations applied by the engine.                             *)
(***************************************************************************)
\* acorn finds the names of the single-identifier declarators of a top-level
\* VariableDeclaration; any other statement declares nothing.
RECURSIVE DeclaredNames(_)
DeclaredNames(ds) ==
  IF ds = << >> THEN << >> ELSE <<Head(ds).name>> \o DeclaredNames(Tail(ds))

ExtractVariableNames(statement) ==
  IF statement.kind = "decl" THEN DeclaredNames(statement.decls) ELSE << >>

\* statement.replace(/\b(const|let|var)\s+NAME\s*=/g, 'globalThis.NAME =') for
\* each declared name.  Only the first declarator follows the keyword, so the
\* text  const a = e1, b = e2  becomes the expression  globalThis.a = e1, b = e2.
\* A first declarator without initializer has no '=' after its name: nothing
\* matches and the statement stays a declaration.
RewriteDeclarations(statement, variableNames) ==
  IF statement.kind = "decl" /\ variableNames # << >>
       /\ Head(variableNames) = Head(statement.decls).name
       /\ Head(statement.decls).e # NoInit
  THEN Comma(statement.decls)
  ELSE statement

\* mutant: the pattern matches no fetch call
ReplaceFetchExprMissed(e) == e

\* e.replace(/fetch\([^)]+\)/g, 'globalThis.__currentFetchData')
ReplaceFetchExpr(e) ==
  CASE e.op = "fetch"     -> DataRef
    [] e.op = "fetchprop" -> DataProp
    [] e.op = "firstof"   -> FirstOfData
    [] e.op = "fetchor"   -> DataOr(e.name)
    [] OTHER              -> e

RECURSIVE ReplaceFetchDecls(_)
ReplaceFetchDecls(ds) ==
  IF ds = << >> THEN << >>
  ELSE <<Declarator(Head(ds).name, ReplaceFetchExpr(Head(ds).e))>>
         \o ReplaceFetchDecls(Tail(ds))

\* currentStatement.replace(/fetch\([^)]+\)/g, 'globalThis.__currentFetchData')
ReplaceFetch(statement) ==
  CASE statement.kind \in {"expr", "assign"} ->
         [statement EXCEPT !.e = ReplaceFetchExpr(statement.e)]
    [] statement.kind \in {"decl", "comma"} ->
         [statement EXCEPT !.decls = ReplaceFetchDecls(statement.decls)]
    [] statement.kind = "for" -> [statement EXCEPT !.replaced = TRUE]
    [] OTHER -> statement

\* Slices of the source between the statement boundaries acorn reports: the
\* white space between statements belongs to no statement.
\* mutant: a source the parser rejects yields no statement
ParseCodeIntoStatementsOrNone(code) ==
  IF \E k \in DOMAIN code : code[k].kind = "garbage"
  THEN << >>
  ELSE SelectSeq(code, LAMBDA tok : tok.kind # "newline")

\* When acorn.parse throws, the whole source is the one statement.
ParseCodeIntoStatements(code) ==
  IF \E k \in DOMAIN code : code[k].kind = "garbage"
  THEN <<Unparsed(code)>>
  ELSE SelectSeq(code, LAMBDA tok : tok.kind # "newline")

(***************************************************************************)
(* Snapshot capture and restore.                                           *)
(***************************************************************************)
\* globalThis[key] for an own property name of globalThis; Absent when there
\* is no such property (a lexical binding is none)
OwnProperty(vm, key) ==
  CASE key = "__fetchPause"       -> vm.fetchPause
    [] key = "__currentFetchData" -> vm.currentFetchData
    [] key \in HostEntries        -> HostObject
    [] OTHER -> IF vm.scope[key] = "lexical" THEN Absent ELSE vm.globals[key]

\* JSON.stringify(val) returns (it throws on a cyclic object)
Serializable(val) == val # Cyclic

\* val is part of the object vm.dump returns: undefined and functions have no
\* JSON form
HasJsonForm(val) == val.t \notin {"undefined", "function"}

\* mutant: the test of the leading '_' is left out
CapturedVariablesWithSlots(vm) ==
  IF ~vm.intrinsics
  THEN [key \in GlobalKeys |-> Absent]
  ELSE [key \in GlobalKeys |->
          LET val == OwnProperty(vm, key)
          IN  IF key \in Denylist \/ val = Absent
                   \/ ~Serializable(val) \/ ~HasJsonForm(val)
              THEN Absent ELSE val]

\* mutant: a failed capture evaluation leaves the bindings readable
CapturedVariablesAnyway(vm) ==
  [key \in GlobalKeys |->
     LET val == OwnProperty(vm, key)
     IN  IF StartsWithUnderscore(key) \/ key \in Denylist \/ val = Absent
              \/ ~Serializable(val) \/ ~HasJsonForm(val)
         THEN Absent ELSE val]

\* The own properties of globalThis that are neither reserved (leading '_')
\* nor on the denylist and whose value JSON.stringify accepts, as dumped through
\* JSON.  When the evaluation fails (Object.getOwnPropertyNames is not callable
\* once the script has overwritten Object) the mapping is empty.
CapturedVariables(vm) ==
  IF ~vm.intrinsics
  THEN [key \in GlobalKeys |-> Absent]
  ELSE [key \in GlobalKeys |->
          LET val == OwnProperty(vm, key)
          IN  IF StartsWithUnderscore(key) \/ key \in Denylist \/ val = Absent
                   \/ ~Serializable(val) \/ ~HasJsonForm(val)
              THEN Absent ELSE val]

\* mutant: the snapshot records the index after the current statement
GetCurrentStateNext(vm) ==
  [ code                  |-> vm.allCode,
    variables             |-> CapturedVariables(vm),
    currentStatementIndex |-> vm.currentStatementIndex + 1,
    statements            |-> vm.statements ]

GetCurrentState(vm) ==
  [ code                  |-> vm.allCode,
    variables             |-> CapturedVariables(vm),
    currentStatementIndex |-> vm.currentStatementIndex,
    statements            |-> vm.statements ]

\* state.statements || []
StatementsOf(state) ==
  IF "statements" \in DOMAIN state THEN state.statements ELSE << >>

\* Object.keys(state.variables).length > 0
HasVariables(state) == \E key \in GlobalKeys : state.variables[key] # Absent

\* The evaluation of  Object.assign(globalThis, {...})  reports an error: Object
\* is no longer the intrinsic, or a key names a property that is not writable.
RestoreFails(vm, state) ==
  /\ HasVariables(state)
  /\ \/ ~vm.intrinsics
     \/ \E n \in Names : state.variables[n] # Absent /\ vm.scope[n] = "readonly"

\* The global bindings after restoreState.  A failure is only logged
\* (console.warn) and the bindings stay as they are.
MergedGlobals(vm, state) ==
  IF RestoreFails(vm, state) \/ ~HasVariables(state) THEN vm.globals
  ELSE [n \in Names |->
          IF state.variables[n] = Absent THEN vm.globals[n] ELSE state.variables[n]]

\* mutant: the bindings of the snapshot are not written into the interpreter
RestoreStateWithoutVariables(vm, state) ==
  [vm EXCEPT !.allCode = state.code,
             !.statements = StatementsOf(state),
             !.currentStatementIndex = state.currentStatementIndex]

\* mutant: restoring re-issues the fetch of every statement before the cursor
RestoreStateRefetching(vm, state) ==
  [vm EXCEPT !.allCode = state.code,
             !.statements = StatementsOf(state),
             !.currentStatementIndex = state.currentStatementIndex,
             !.fetchCounter = vm.fetchCounter + state.currentStatementIndex,
             !.globals = MergedGlobals(vm, state)]

\* mutant: the accumulated text of the snapshot is not restored
RestoreStateWithoutCode(vm, state) ==
  [vm EXCEPT !.statements = StatementsOf(state),
             !.currentStatementIndex = state.currentStatementIndex,
             !.globals = MergedGlobals(vm, state)]

\* mutant: the cursor is restored one statement too early
RestoreStateRewinding(vm, state) ==
  [vm EXCEPT !.allCode = state.code,
             !.statements = StatementsOf(state),
             !.currentStatementIndex =
               IF state.currentStatementIndex > 0
               THEN state.currentStatementIndex - 1 ELSE 0,
             !.globals = MergedGlobals(vm, state)]

\* mutant: the cursor of the snapshot is not restored
RestoreStateFromStart(vm, state) ==
  [vm EXCEPT !.allCode = state.code,
             !.statements = StatementsOf(state),
             !.currentStatementIndex = 0,
             !.globals = MergedGlobals(vm, state)]

\* Object.assign(globalThis, <JSON of state.variables>)
RestoreState(vm, state) ==
  [vm EXCEPT !.allCode = state.code,
             !.statements = StatementsOf(state),
             !.currentStatementIndex = state.currentStatementIndex,
             !.globals = MergedGlobals(vm, state)]

(***************************************************************************)
(* Results of a call.  A call that throws returns no ExecutionResult; it   *)
(* is recorded with type "error".                                          *)
(***************************************************************************)
NoState == [t |-> "none"]
NoRequest == [t |-> "none"]

\* mutant: the value of the last statement is not returned
CompletedWithoutValue(value) ==
  [type |-> "completed", result |-> Undef, state |-> NoState, fetchRequest |-> NoRequest]

\* { type: 'completed', result: value }
Completed(value) ==
  [type |-> "completed", result |-> value, state |-> NoState, fetchRequest |-> NoRequest]
Paused(state, fetchRequest) ==
  [type |-> "paused", result |-> Undef, state |-> state, fetchRequest |-> fetchRequest]
Thrown ==
  [type |-> "error", result |-> Undef, state |-> NoState, fetchRequest |-> NoRequest]
\* the call has not returned and never will
Hung ==
  [type |-> "hung", result |-> Undef, state |-> NoState, fetchRequest |-> NoRequest]
NoResult ==
  [type |-> "none", result |-> Undef, state |-> NoState, fetchRequest |-> NoRequest]

\* One entry of the record of a call: the statement index evaluated, whether it
\* was the replay done by resume, how the step ended ("ok": no pause, "pause",
\* "error": the interpreter reported an exception, "failed": the driver itself
\* threw), the value, the marker found (if any), the cursor afterwards and the
\* number of calls of fetch made by the evaluation.
Step(i, replay, out, value, found, after, fetches) ==
  [i |-> i, replay |-> replay, out |-> out, value |-> value, found |-> found,
   after |-> after, fetches |-> fetches]

Return(vm, res, log) == [vm |-> vm, res |-> res, log |-> log]

(***************************************************************************)
(* The execution driver.                                                   *)
(***************************************************************************)
\* for (const varName of variableNames) { evalCode(varName) ... break }
RECURSIVE FirstMarkerIn(_, _)
FirstMarkerIn(vm, variableNames) ==
  IF variableNames = << >> THEN Absent
  ELSE LET varValue == vm.globals[Head(variableNames)]
       IN  IF varValue # Absent /\ IsPauseMarker(varValue) THEN varValue
           ELSE FirstMarkerIn(vm, Tail(variableNames))

\* foundPauseMarker after a successful evaluation
FoundPauseMarker(vm, statement, value) ==
  IF IsPauseMarker(value) THEN value
  ELSE FirstMarkerIn(vm, ExtractVariableNames(statement))

\* const fetchDetails = dump(evalCode('globalThis.__fetchPause'));
\* fetchRequest = { id: fetchDetails.id, url: ..., options: ... }
FetchRequestOf(fetchDetails) ==
  [t |-> "request", id |-> fetchDetails.id, url |-> fetchDetails.url,
   options |-> fetchDetails.options]

\* mutant: the driver skips a statement
MoveToNextStatementSkipping(vm) ==
  [vm EXCEPT !.currentStatementIndex = vm.currentStatementIndex + 2]

\* this.currentStatementIndex++   (the driver, after a statement without pause)
MoveToNextStatement(vm) ==
  [vm EXCEPT !.currentStatementIndex = vm.currentStatementIndex + 1]

\* mutant: the interpreter's error is swallowed
ThrowEvalErrorSwallowed(vm, log) == Return(vm, Completed(Undef), log)

\* mutant: a failed call puts the cursor back at the first statement
ThrowEvalErrorRewinding(vm, log) ==
  Return([vm EXCEPT !.currentStatementIndex = 0], Thrown, log)

\* if (result.error) { ...; throw new Error(...) }: the call ends by throwing
ThrowEvalError(vm, log) == Return(vm, Thrown, log)

RECURSIVE ExecuteNextStatement(_, _, _)

\* executeNextStatement once vm.evalCode(statement) has returned r: the error
\* check, the marker check, the pause, and the move to the next statement
HandleEvalResult(vm, statement, r, now, log) ==
  LET i       == vm.currentStatementIndex
      fetches == r.vm.fetchCounter - vm.fetchCounter
  IN  IF r.err /\ r.v = Never
      THEN Return(r.vm, Hung,
                  Append(log, Step(i, FALSE, "hang", Undef, Absent,
                                   r.vm.currentStatementIndex, fetches)))
      ELSE IF r.err
      THEN ThrowEvalError(r.vm,
             Append(log, Step(i, FALSE, "error", Undef, Absent,
                              r.vm.currentStatementIndex, fetches)))
      ELSE
        LET found == FoundPauseMarker(r.vm, statement, r.v)
        IN  IF found # Absent
            THEN IF r.vm.fetchPause = Absent
                 THEN \* fetchDetails is undefined: reading fetchDetails.id throws
                      Return(r.vm, Thrown,
                             Append(log, Step(i, FALSE, "failed", r.v, found,
                                              r.vm.currentStatementIndex, fetches)))
                 ELSE Return(r.vm,
                             Paused(GetCurrentState(r.vm), FetchRequestOf(r.vm.fetchPause)),
                             Append(log, Step(i, FALSE, "pause", r.v, found,
                                              r.vm.currentStatementIndex, fetches)))
            ELSE
              LET next == MoveToNextStatement(r.vm)
                  log2 == Append(log, Step(i, FALSE, "ok", r.v, Absent,
                                           next.currentStatementIndex, fetches))
              IN  IF next.currentStatementIndex >= Len(next.statements)
                  THEN Return(next, Completed(r.v), log2)
                  ELSE ExecuteNextStatement(next, now, log2)

\* executeNextStatement()
ExecuteNextStatement(vm, now, log) ==
  IF vm.currentStatementIndex >= Len(vm.statements)
  THEN Return(vm, Completed(Undef), log)
  ELSE
    LET original  == vm.statements[vm.currentStatementIndex + 1]
        statement == RewriteDeclarations(original, ExtractVariableNames(original))
    IN  HandleEvalResult(vm, statement, EvalCode(vm, statement, now), now, log)

\* mutant: the accumulated text is what gets segmented
ExecuteAccumulated(vm, code, now) ==
  ExecuteNextStatement(
    [vm EXCEPT !.allCode = vm.allCode \o <<Newline>> \o code,
               !.statements = ParseCodeIntoStatements(vm.allCode \o <<Newline>> \o code),
               !.currentStatementIndex = 0],
    now, << >>)

\* execute(code)
Execute(vm, code, now) ==
  ExecuteNextStatement(
    [vm EXCEPT !.allCode = vm.allCode \o <<Newline>> \o code,
               !.statements = ParseCodeIntoStatements(code),
               !.currentStatementIndex = 0],
    now, << >>)

\* mutant: resume does not advance the cursor after the replay
MovePastReplayedStuck(vm) == vm

\* mutant: resume removes the replayed statement from the list in place
MovePastReplayedShifting(vm) ==
  [vm EXCEPT !.statements =
     SubSeq(vm.statements, 1, vm.currentStatementIndex)
       \o SubSeq(vm.statements, vm.currentStatementIndex + 2, Len(vm.statements))]

\* this.currentStatementIndex++   (resume, after the replay)
MovePastReplayed(vm) ==
  [vm EXCEPT !.currentStatementIndex = vm.currentStatementIndex + 1]

\* delete globalThis.__currentFetchData; delete globalThis.__fetchPause;
ClearFetchData(vm) ==
  [vm EXCEPT !.currentFetchData = Absent, !.fetchPause = Absent]

\* resume once vm.evalCode(transformedStatement) has returned r: the error
\* check, the cursor increment, the clearing of the slots and the continuation
HandleReplayResult(injected, r, now) ==
  LET i       == injected.currentStatementIndex
      fetches == r.vm.fetchCounter - injected.fetchCounter
  IN  IF r.err /\ r.v = Never
      THEN Return(r.vm, Hung,
                  <<Step(i, TRUE, "hang", Undef, Absent,
                         r.vm.currentStatementIndex, fetches)>>)
      ELSE IF r.err
      THEN ThrowEvalError(r.vm,
             <<Step(i, TRUE, "error", Undef, Absent,
                    r.vm.currentStatementIndex, fetches)>>)
      ELSE
        LET cleared == ClearFetchData(MovePastReplayed(r.vm))
            log     == <<Step(i, TRUE, "ok", r.v, Absent,
                              cleared.currentStatementIndex, fetches)>>
        IN  IF cleared.currentStatementIndex < Len(cleared.statements)
            THEN ExecuteNextStatement(cleared, now, log)
            ELSE Return(cleared, Completed(r.v), log)

\* mutant: resume moves on without evaluating the paused statement again
ReplayCurrentStatementSkipped(injected, now) ==
  IF injected.currentStatementIndex + 1 < Len(injected.statements)
  THEN ExecuteNextStatement(ClearFetchData(MovePastReplayed(injected)), now, << >>)
  ELSE Return(ClearFetchData(MovePastReplayed(injected)),
              Completed(CurrentFetchData(injected)), << >>)

\* mutant: the data of a response that reports a failure is not injected
RestoreAndInjectIfSuccessful(vm, state, fetchResponse) ==
  [RestoreState(vm, state) EXCEPT
     !.currentFetchData = IF fetchResponse.success THEN fetchResponse.data ELSE Undef]

\* restoreState(state) followed by the injection of fetchResponse.data
RestoreAndInject(vm, state, fetchResponse) ==
  [RestoreState(vm, state) EXCEPT !.currentFetchData = fetchResponse.data]

\* mutant: with the cursor past the list resume completes as executeNextStatement
\* does, and moves the cursor on
ReplayCurrentStatementGuarded(injected, now) ==
  IF injected.currentStatementIndex >= Len(injected.statements)
  THEN Return(ClearFetchData(MovePastReplayed(injected)), Completed(Undef), << >>)
  ELSE
    LET currentStatement     == injected.statements[injected.currentStatementIndex + 1]
        transformedStatement ==
          RewriteDeclarations(ReplaceFetch(currentStatement),
                              ExtractVariableNames(currentStatement))
    IN  HandleReplayResult(injected, EvalCode(injected, transformedStatement, now), now)

\* resume with the engine restored and the response injected
ReplayCurrentStatement(injected, now) ==
  IF injected.currentStatementIndex >= Len(injected.statements)
  THEN \* currentStatement is undefined: currentStatement.replace throws
       Return(injected, Thrown, << >>)
  ELSE
    LET currentStatement     == injected.statements[injected.currentStatementIndex + 1]
        transformedStatement ==
          RewriteDeclarations(ReplaceFetch(currentStatement),
                              ExtractVariableNames(currentStatement))
    IN  HandleReplayResult(injected, EvalCode(injected, transformedStatement, now), now)

\* resume(state, fetchResponse)
Resume(vm, state, fetchResponse, now) ==
  ReplayCurrentStatement(RestoreAndInject(vm, state, fetchResponse), now)

\* The snapshot object passed to resume, as it is once resume has returned ret.
\* restoreState copies state.code (a string) and state.currentStatementIndex (a
\* number) and only reads state.variables; this.statements = state.statements
\* makes the engine's list the very array of the snapshot, so the snapshot's
\* list is whatever the engine's list is when the call returns.
SnapshotAfterResume(state, ret) ==
  [state EXCEPT !.statements = ret.vm.statements]

\* executeCode(code): a fresh engine, disposed on return
ExecuteCode(code, now) == Execute(NewVM, code, now)

\* resumeExecution(state, fetchResponse): a fresh engine, disposed on return
ResumeExecution(state, fetchResponse, now) == Resume(NewVM, state, fetchResponse, now)

(***************************************************************************)
(* Inputs: the scripts submitted and the responses supplied by the caller. *)
(***************************************************************************)
StmtPool ==
  { ExprStmt(Lit(1)),
    Assign("x", Lit(1)),
    ExprStmt(Var("x")),
    ExprStmt(Var("y")),
    ExprStmt(Prop("y")),
    Assign("y", Fetch(Url(1))),
    Decl(<<Declarator("y", Fetch(Url(2)))>>),
    ExprStmt(Fetch(Url(2))),
    Decl(<<Declarator("x", Fetch(Url(1))), Declarator("y", Lit(1))>>),
    Decl(<<Declarator("x", Fetch(Url(1))), Declarator("y", Fetch(Url(2)))>>),
    Assign("x", FirstOf(Url(1), Url(2))),
    Assign("x", FetchProp(Url(1))),
    Assign("x", FetchOr(Url(1), "y")),
    ForLoop(1, "none"),
    ForLoop(1, "last"),
    Throw }

\* Scenario A:  x = 1; y = fetch("/1"); y;
ScenarioA ==
  <<Assign("x", Lit(1)), Assign("y", Fetch(Url(1))), ExprStmt(Var("y"))>>

\* Test 2 (sequential fetches):
\*   const x = fetch("/1"); x.title; const y = fetch("/2"); y.title;
ScenarioB ==
  <<Decl(<<Declarator("x", Fetch(Url(1)))>>), ExprStmt(Prop("x")),
    Decl(<<Declarator("y", Fetch(Url(2)))>>), ExprStmt(Prop("y"))>>

\* The loop test:  x = 1; for (...) { const post = fetch("/1" + i); post.title; } x;
LoopTest ==
  <<Assign("x", Lit(1)), ForLoop(1, "none"), ExprStmt(Var("x"))>>

\* Sources that are not valid JavaScript:  const = ;   and   x = 1; const = ;
InvalidOnly == <<Garbage>>
InvalidAfterValid == <<Assign("x", Lit(1)), Garbage>>

\* A script that keeps a value under a name of its own with a leading '_':
\*   _t = 1; y = fetch("/1"); _t;
UnderscoreName ==
  <<Assign("_t", Lit(1)), Assign("y", Fetch(Url(1))), ExprStmt(Var("_t"))>>

\* A script with a binding JSON.stringify rejects, which then overwrites Object:
\*   x = {}, x.self = x, 1; y = fetch("/1"); Object = 1; fetch("/2");
CaptureCases ==
  <<MakeCyclic("x"), Assign("y", Fetch(Url(1))), ClobberObject, ExprStmt(Fetch(Url(2)))>>

\* A script that defines a global property that is not writable:
\*   Object.defineProperty(globalThis, "x", {value: 1}).x; y = fetch("/1"); x;
ReadOnlyBinding ==
  <<DefineConst("x", 1), Assign("y", Fetch(Url(1))), ExprStmt(Var("x"))>>

\* A script that declares a name without initializer:
\*   let x; x = 1; y = fetch("/1"); x;
LetWithoutInit ==
  <<Decl(<<Declarator("x", NoInit)>>), Assign("x", Lit(1)),
    Assign("y", Fetch(Url(1))), ExprStmt(Var("x"))>>

\* A script with a statement whose evaluation does not end:
\*   fetch("/1"); for (;;) {}
Endless ==
  <<ExprStmt(Fetch(Url(1))), Forever>>

Scenarios ==
  {ScenarioA, ScenarioB, LoopTest, InvalidOnly, InvalidAfterValid, UnderscoreName,
   CaptureCases, ReadOnlyBinding, LetWithoutInit, Endless}

\* every script of at most MaxLen statements of the pool, and the scenarios
Sources == Scenarios \cup UNION { [1..n -> StmtPool] : n \in 0..MaxLen }

\* fetchResponse.data: undefined, a number, or an object with a title
ResponseData == {Undef, Num(42), Obj(7)}

\* an id that no engine issues (the counter of an issued id is at least 1)
NoSuchRequest == RequestId(0, 0)

FetchResponse(id, success, status, data) ==
  [id |-> id, success |-> success, status |-> status, data |-> data]

\* The responses a caller may supply for the pending request: the one built
\* from the request (its id, success, status 200), and one that names no
\* pending request and reports a failure (status 500).
FetchResponses(fetchRequest) ==
  { FetchResponse(fetchRequest.id, TRUE, 200, data) : data \in ResponseData }
    \cup { FetchResponse(NoSuchRequest, FALSE, 500, data) : data \in ResponseData }

(***************************************************************************)
(* State.                                                                  *)
(*   vm      the long-lived engine instance of the caller                  *)
(*   code    the source submitted at the start of the run                  *)
(*   result  what the last call returned (type "error": it threw)          *)
(*   call    record of the last call: its kind, whether it ran on a fresh  *)
(*           engine (the stateless entry points; a run stays in the        *)
(*           deployment shape it started in), the cursor of the snapshot   *)
(*           it resumed, the data of the response it was given, whether    *)
(*           that response was the one built from the pending request,     *)
(*           and the statements it evaluated                               *)
(*   pauses  the fetch requests of the Paused results of the run so far    *)
(*   responses  the data of the responses supplied to the resumes so far   *)
(*   evaluated  the evaluations of statements made by the calls of the run *)
(*           so far, in order: the statement index, whether it was the     *)
(*           replay of resume, whether it ended in a pause                 *)
(*   clock   the last value of Date.now()                                  *)
(*   held    a snapshot of an earlier Paused result the caller has kept    *)
(*   inflight  the calls issued on the engine whose promise is not settled *)
(*   contexts  the QuickJS contexts created by the stateless entry points  *)
(*             and how often each has been disposed                        *)
(***************************************************************************)
VARIABLES vm, code, result, call, pauses, responses, evaluated, clock,
          held, inflight, contexts

vars == <<vm, code, result, call, pauses, responses, evaluated, clock,
          held, inflight, contexts>>

NoCall ==
  [kind |-> "none", fresh |-> FALSE, from |-> 0, data |-> Undef, genuine |-> TRUE,
   log |-> << >>]

Init ==
  /\ vm = NewVM
  /\ code = << >>
  /\ result = NoResult
  /\ call = NoCall
  /\ pauses = << >>
  /\ responses = << >>
  /\ evaluated = << >>
  /\ clock = 0
  /\ held = NoState
  /\ inflight = << >>
  /\ contexts = << >>

\* the evaluations a call's record lists
Evaluations(log) ==
  [k \in 1..Len(log) |->
     [i |-> log[k].i, replay |-> log[k].replay, pause |-> (log[k].out = "pause")]]

\* what the caller has at hand once a call has returned ret; a call made and
\* awaited on its own keeps no older snapshot and leaves nothing in flight
Record(ret) ==
  /\ UNCHANGED <<held, inflight, contexts>>
  /\ result' = ret.res
  /\ evaluated' = evaluated \o Evaluations(ret.log)
  /\ pauses' = IF ret.res.type = "paused"
               THEN Append(pauses, ret.res.fetchRequest) ELSE pauses

\* vm.execute(source) on the caller's engine
DoExecute ==
  /\ call.kind = "none"
  /\ \E source \in Sources, now \in clock..MaxClock :
       \E ret \in {Execute(vm, source, now)} :
           /\ vm' = ret.vm
           /\ code' = source
           /\ call' = [kind |-> "execute", fresh |-> FALSE, from |-> 0,
                       data |-> Undef, genuine |-> TRUE, log |-> ret.log]
           /\ clock' = now
           /\ Record(ret)
           /\ UNCHANGED responses

\* executeCode(source)
DoExecuteCode ==
  /\ call.kind = "none"
  /\ \E source \in Sources, now \in clock..MaxClock :
       \E ret \in {ExecuteCode(source, now)} :
           /\ code' = source
           /\ call' = [kind |-> "execute", fresh |-> TRUE, from |-> 0,
                       data |-> Undef, genuine |-> TRUE, log |-> ret.log]
           /\ clock' = now
           /\ Record(ret)
           /\ UNCHANGED <<vm, responses>>

\* vm.resume(result.state, fetchResponse) on the caller's engine
DoResume ==
  /\ result.type = "paused"
  /\ ~call.fresh
  /\ \E fetchResponse \in FetchResponses(result.fetchRequest), now \in clock..MaxClock :
       \E ret \in {Resume(vm, result.state, fetchResponse, now)} :
           /\ vm' = ret.vm
           /\ call' = [kind |-> "resume", fresh |-> FALSE,
                       from |-> result.state.currentStatementIndex,
                       data |-> fetchResponse.data,
                       genuine |-> (fetchResponse.id = result.fetchRequest.id),
                       log |-> ret.log]
           /\ clock' = now
           /\ Record(ret)
           /\ responses' = Append(responses, fetchResponse.data)
           /\ UNCHANGED code

\* resumeExecution(result.state, fetchResponse)
DoResumeExecution ==
  /\ result.type = "paused"
  /\ call.fresh
  /\ \E fetchResponse \in FetchResponses(result.fetchRequest), now \in clock..MaxClock :
       \E ret \in {ResumeExecution(result.state, fetchResponse, now)} :
           /\ call' = [kind |-> "resume", fresh |-> TRUE,
                       from |-> result.state.currentStatementIndex,
                       data |-> fetchResponse.data,
                       genuine |-> (fetchResponse.id = result.fetchRequest.id),
                       log |-> ret.log]
           /\ clock' = now
           /\ Record(ret)
           /\ responses' = Append(responses, fetchResponse.data)
           /\ UNCHANGED <<vm, code>>

Next == DoExecute \/ DoExecuteCode \/ DoResume \/ DoResumeExecution

Spec == Init /\ [][Next]_vars

\* The caller's part of a resume, in terms of the run's history: a response is
\* given for the Paused result at hand.  Every step of DoResume and of
\* DoResumeExecution is such a step and no other step of Next is; it can be
\* taken exactly when the result is Paused, which is when one of the two
\* resume actions can be taken (they have no other guard).
ResponseSupplied ==
  /\ result.type = "paused"
  /\ \E data \in ResponseData : responses' = Append(responses, data)

\* The caller of the loop-fetch test and of the README's loops resumes every
\* Paused result (while (result.type === 'paused') { ... resume ... }): a resume
\* that stays possible is eventually made.
SpecResumed == Spec /\ WF_responses(ResponseSupplied)

(***************************************************************************)
(* Step-wise use of one engine ("With State Management" in the README):    *)
(* the caller submits one statement after the other to the same instance,  *)
(* whatever the previous call returned, and resumes on it.  code is the    *)
(* latest submission.                                                      *)
(***************************************************************************)
Submissions == { <<s>> : s \in StmtPool } \cup { << >> }

\* the submissions the engine has received: each is preceded by a line break
Submitted(engine) ==
  Cardinality({ k \in DOMAIN engine.allCode : engine.allCode[k] = Newline })

\* vm.execute(source) on an engine that may have executed before
DoSubmit ==
  /\ Submitted(vm) < MaxSubmits
  /\ \E source \in Submissions, now \in clock..MaxClock :
       \E ret \in {Execute(vm, source, now)} :
           /\ vm' = ret.vm
           /\ code' = source
           /\ call' = [kind |-> "execute", fresh |-> FALSE, from |-> 0,
                       data |-> Undef, genuine |-> TRUE, log |-> ret.log]
           /\ clock' = now
           /\ Record(ret)
           /\ UNCHANGED responses

NextSubmit == DoSubmit \/ DoResume

SpecSubmit == Init /\ [][NextSubmit]_vars

(***************************************************************************)
(* The legacy engine FetchVM (fetch-vm-lib.ts, the package's main export). *)
(* It evaluates a submission as one program and has no statement list and  *)
(* no cursor.  Scripts here are made of expression statements, loops and   *)
(* throw; they declare nothing at top level.                               *)
(***************************************************************************)
\* new FetchVM() followed by initialize()
NewFetchVM ==
  [ allCode       |-> << >>,
    fetchCounter  |-> 0,
    globals       |-> NoGlobals,
    scope         |-> NoScope,
    intrinsics    |-> TRUE,
    fetchPause    |-> Absent,
    fetchResponse |-> Absent ]

\* vm.evalCode(code) for a program: the statements run in order up to the
\* first exception; the value is that of the last statement
RECURSIVE EvalProgram(_, _, _, _)
EvalProgram(engine, program, now, last) ==
  IF program = << >> THEN Ok(engine, last)
  ELSE IF Head(program) = Newline THEN EvalProgram(engine, Tail(program), now, last)
  ELSE LET r == EvalCode(engine, Head(program), now)
       IN  IF r.err THEN r ELSE EvalProgram(r.vm, Tail(program), now, r.v)

\* FetchVM.getCurrentState(): no statement list, no cursor
\* (the slot this engine injects into is globalThis.__fetchResponse, reserved
\* by its leading '_' like __currentFetchData)
FetchVMGetCurrentState(engine) ==
  [code |-> engine.allCode,
   variables |-> CapturedVariables([globals |-> engine.globals,
                                    scope |-> engine.scope,
                                    intrinsics |-> engine.intrinsics,
                                    fetchPause |-> engine.fetchPause,
                                    currentFetchData |-> engine.fetchResponse])]

\* FetchVM.restoreState(state): evaluates the whole recorded code again (an
\* exception is only logged), then assigns the recorded bindings
FetchVMRestoreState(engine, state, now) ==
  LET rerun == IF state.code # << >>
               THEN EvalProgram([engine EXCEPT !.allCode = state.code],
                                state.code, now, Undef).vm
               ELSE [engine EXCEPT !.allCode = state.code]
  IN  [rerun EXCEPT !.globals = MergedGlobals(rerun, state)]

\* FetchVM.execute once vm.evalCode(code) has returned r
FetchVMHandleEvalResult(engine, r) ==
  LET fetches == r.vm.fetchCounter - engine.fetchCounter
  IN  IF r.err
      THEN Return(r.vm, Thrown, <<Step(0, FALSE, "error", Undef, Absent, 0, fetches)>>)
      ELSE IF IsPauseMarker(r.v)
      THEN IF r.vm.fetchPause = Absent
           THEN Return(r.vm, Thrown,
                       <<Step(0, FALSE, "failed", r.v, r.v, 0, fetches)>>)
           ELSE Return(r.vm,
                       Paused(FetchVMGetCurrentState(r.vm), FetchRequestOf(r.vm.fetchPause)),
                       <<Step(0, FALSE, "pause", r.v, r.v, 0, fetches)>>)
      ELSE Return(r.vm, Completed(r.v), <<Step(0, FALSE, "ok", r.v, Absent, 0, fetches)>>)

\* FetchVM.execute(code)
FetchVMExecute(engine, program, now) ==
  FetchVMHandleEvalResult(
    engine,
    EvalProgram([engine EXCEPT !.allCode = engine.allCode \o <<Newline>> \o program],
                program, now, Undef))

\* FetchVM.resume once the state is restored: the response is stored in
\* globalThis.__fetchResponse and the call returns Completed with its data
FetchVMInjectAndReturn(engine, restored, fetchResponse) ==
  Return([restored EXCEPT !.fetchResponse =
                            [t |-> "object", ok |-> fetchResponse.success,
                             status |-> fetchResponse.status,
                             data |-> fetchResponse.data]],
         Completed(fetchResponse.data),
         <<Step(0, TRUE, "ok", Undef, Absent, 0,
                restored.fetchCounter - engine.fetchCounter)>>)

\* FetchVM.resume(state, fetchResponse)
FetchVMResume(engine, state, fetchResponse, now) ==
  FetchVMInjectAndReturn(engine, FetchVMRestoreState(engine, state, now), fetchResponse)

\* the statements of the pool that declare nothing at top level
ProgramPool == { s \in StmtPool : s.kind \in {"expr", "assign", "for", "throw"} }
Programs == UNION { [1..n -> ProgramPool] : n \in 0..MaxLen }

\* vm.execute(program) on the caller's FetchVM
DoFetchVMExecute ==
  /\ call.kind = "none"
  /\ \E program \in Programs, now \in clock..MaxClock :
       \E ret \in {FetchVMExecute(vm, program, now)} :
           /\ vm' = ret.vm
           /\ code' = program
           /\ call' = [kind |-> "execute", fresh |-> FALSE, from |-> 0,
                       data |-> Undef, genuine |-> TRUE, log |-> ret.log]
           /\ clock' = now
           /\ Record(ret)
           /\ UNCHANGED responses

\* executeCode(program) of fetch-vm-lib: a fresh FetchVM, disposed on return
DoFetchVMExecuteCode ==
  /\ call.kind = "none"
  /\ \E program \in Programs, now \in clock..MaxClock :
       \E ret \in {FetchVMExecute(NewFetchVM, program, now)} :
           /\ code' = program
           /\ call' = [kind |-> "execute", fresh |-> TRUE, from |-> 0,
                       data |-> Undef, genuine |-> TRUE, log |-> ret.log]
           /\ clock' = now
           /\ Record(ret)
           /\ UNCHANGED <<vm, responses>>

\* vm.resume(result.state, fetchResponse) on the caller's FetchVM
DoFetchVMResume ==
  /\ result.type = "paused"
  /\ ~call.fresh
  /\ \E fetchResponse \in FetchResponses(result.fetchRequest), now \in clock..MaxClock :
       \E ret \in {FetchVMResume(vm, result.state, fetchResponse, now)} :
           /\ vm' = ret.vm
           /\ call' = [kind |-> "resume", fresh |-> FALSE, from |-> 0,
                       data |-> fetchResponse.data,
                       genuine |-> (fetchResponse.id = result.fetchRequest.id),
                       log |-> ret.log]
           /\ clock' = now
           /\ Record(ret)
           /\ responses' = Append(responses, fetchResponse.data)
           /\ UNCHANGED code

\* resumeExecution(result.state, fetchResponse) of fetch-vm-lib
DoFetchVMResumeExecution ==
  /\ result.type = "paused"
  /\ call.fresh
  /\ \E fetchResponse \in FetchResponses(result.fetchRequest), now \in clock..MaxClock :
       \E ret \in {FetchVMResume(NewFetchVM, result.state, fetchResponse, now)} :
           /\ call' = [kind |-> "resume", fresh |-> TRUE, from |-> 0,
                       data |-> fetchResponse.data,
                       genuine |-> (fetchResponse.id = result.fetchRequest.id),
                       log |-> ret.log]
           /\ clock' = now
           /\ Record(ret)
           /\ responses' = Append(responses, fetchResponse.data)
           /\ UNCHANGED <<vm, code>>

InitFetchVM ==
  /\ vm = NewFetchVM
  /\ code = << >>
  /\ result = NoResult
  /\ call = NoCall
  /\ pauses = << >>
  /\ responses = << >>
  /\ evaluated = << >>
  /\ clock = 0
  /\ held = NoState
  /\ inflight = << >>
  /\ contexts = << >>

NextFetchVM ==
  DoFetchVMExecute \/ DoFetchVMExecuteCode \/ DoFetchVMResume \/ DoFetchVMResumeExecution

SpecFetchVM == InitFetchVM /\ [][NextFetchVM]_vars

(***************************************************************************)
(* Vocabulary of the properties.                                           *)
(***************************************************************************)
Last(seq) == seq[Len(seq)]

\* the statements of the run, as segmented from the submitted source
Script == ParseCodeIntoStatements(code)

HasFetchCall(e) == e.op \in {"fetch", "fetchprop", "firstof", "fetchor"}

\* the text of the statement contains a call of fetch
CallsFetch(s) ==
  CASE s.kind \in {"expr", "assign"} -> HasFetchCall(s.e)
    [] s.kind = "decl" -> \E k \in DOMAIN s.decls : HasFetchCall(s.decls[k].e)
    [] s.kind = "for" -> TRUE
    [] OTHER -> FALSE

\* name = fetch("u");   or   const name = fetch("u");
IsFetchBinding(s) ==
  \/ s.kind = "assign" /\ s.e.op = "fetch"
  \/ s.kind = "decl" /\ Len(s.decls) = 1 /\ s.decls[1].e.op = "fetch"

\* a statement that is one fetch call, bound or not:  fetch("u");
IsSingleFetch(s) == IsFetchBinding(s) \/ (s.kind = "expr" /\ s.e.op = "fetch")

BoundName(s) == IF s.kind = "decl" THEN s.decls[1].name ELSE s.name
FetchUrl(s) == IF s.kind = "decl" THEN s.decls[1].e.url ELSE s.e.url

FetchPositions(src) == { p \in DOMAIN src : CallsFetch(src[p]) }

\* the URLs of the fetch statements of src, in source order
RECURSIVE FetchUrls(_)
FetchUrls(src) ==
  IF src = << >> THEN << >>
  ELSE (IF CallsFetch(Head(src)) THEN <<FetchUrl(Head(src))>> ELSE << >>)
         \o FetchUrls(Tail(src))

\* the index (from 0) of the k-th fetch statement of src
RECURSIVE NthFetchIndex(_, _, _)
NthFetchIndex(src, k, from) ==
  IF CallsFetch(src[from + 1])
  THEN IF k = 1 THEN from ELSE NthFetchIndex(src, k - 1, from + 1)
  ELSE NthFetchIndex(src, k, from + 1)

\* the call ended because the interpreter reported an exception for statement i
RaisedAt(i) ==
  /\ result = Thrown
  /\ call.log # << >>
  /\ Last(call.log).out = "error"
  /\ Last(call.log).i = i

(***************************************************************************)
(* C1.  A script with one top-level statement that binds the result of     *)
(* fetch with a literal URL: execute returns Paused with that URL (unless  *)
(* an earlier statement raised), and resume then returns Completed, never  *)
(* Paused; when the binding is the last statement, or is followed only by  *)
(* a read of the bound name, the result is response.data itself (Scenario  *)
(* A resumed with 42 completes with 42).                                   *)
(***************************************************************************)
C1_SingleFetchBinding ==
  \A p \in DOMAIN Script :
    (FetchPositions(Script) = {p} /\ IsFetchBinding(Script[p])) =>
      /\ call.kind = "execute" =>
           \/ /\ result.type = "paused"
              /\ result.fetchRequest.url = FetchUrl(Script[p])
              /\ result.state.currentStatementIndex = p - 1
           \/ \E i \in 0..(p - 2) : RaisedAt(i)
      /\ call.kind = "resume" =>
           /\ call.from = p - 1
           /\ \/ result.type = "completed"
              \/ \E i \in p..(Len(Script) - 1) : RaisedAt(i)
           /\ p = Len(Script) => result = Completed(call.data)
           /\ (p + 1 = Len(Script)
                 /\ Script[p + 1] = ExprStmt(Var(BoundName(Script[p]))))
                => result = Completed(call.data)

C1_Witness ==
  /\ code = ScenarioA
  /\ call.kind = "resume"
  /\ call.data = Num(42)
  /\ Len(pauses) = 1 /\ pauses[1].url = Url(1)
  /\ result = Completed(Num(42))

(***************************************************************************)
(* C2.  A script whose fetch statements are each a single fetch call: the  *)
(* Paused results of the run carry the URLs of the fetch statements in     *)
(* source order, each pause leaves the cursor at the corresponding fetch   *)
(* statement, the run completes only after as many pauses as there are     *)
(* fetch statements, and it fails only where a statement without fetch     *)
(* raised.                                                                 *)
(***************************************************************************)
AllSingleFetch(src) ==
  \A p \in DOMAIN src : CallsFetch(src[p]) => IsSingleFetch(src[p])

C2_SequentialFetches ==
  (call.kind # "none" /\ AllSingleFetch(Script)) =>
    LET urls == FetchUrls(Script)
        n    == Len(pauses)
    IN  /\ n <= Len(urls)
        /\ \A j \in 1..n : pauses[j].url = urls[j]
        /\ call.kind = "execute" => n <= 1
        /\ result.type = "paused" =>
             /\ n >= 1
             /\ result.fetchRequest = pauses[n]
             /\ result.state.currentStatementIndex = NthFetchIndex(Script, n, 0)
        /\ result.type = "completed" => n = Len(urls)
        /\ result.type = "error" =>
             \E i \in 0..(Len(Script) - 1) : RaisedAt(i) /\ ~CallsFetch(Script[i + 1])

C2_Witness ==
  /\ code = ScenarioB
  /\ call.kind = "resume"
  /\ result.type = "completed"
  /\ Len(pauses) = 2 /\ pauses[1].url = Url(1) /\ pauses[2].url = Url(2)

(***************************************************************************)
(* C3.  Every evaluation of a loop statement that calls fetch pauses at    *)
(* the first call: the step ends in a pause after exactly one fetch call.  *)
(***************************************************************************)
C3_LoopPausesAtEachFetch ==
  \A k \in DOMAIN call.log :
    (Script[call.log[k].i + 1].kind = "for" /\ call.log[k].fetches > 0) =>
      /\ call.log[k].out = "pause"
      /\ call.log[k].fetches = 1

(***************************************************************************)
(* C4.  A script in which no statement calls fetch: the run is the one     *)
(* execute call, which returns Completed (or fails because a statement     *)
(* raised); it never pauses and carries no state and no fetchRequest.      *)
(***************************************************************************)
C4_NoFetchCompletes ==
  (call.kind # "none" /\ FetchPositions(Script) = {}) =>
    /\ call.kind = "execute"
    /\ pauses = << >>
    /\ result.state = NoState
    /\ result.fetchRequest = NoRequest
    /\ \/ result.type = "completed"
       \/ \E i \in 0..(Len(Script) - 1) : RaisedAt(i)

C4_Witness ==
  /\ code = <<Assign("x", Lit(1)), ExprStmt(Var("x"))>>
  /\ call.kind = "execute"
  /\ result = Completed(Num(1))

(***************************************************************************)
(* C5.  Within one call the statements are evaluated in source order from  *)
(* the cursor the call starts at, one index after the other; the cursor    *)
(* grows by one after each statement evaluated without pause and stays     *)
(* otherwise; only the last evaluation of a call can be a pause or a       *)
(* failure, and a call whose last evaluation did not pause or fail has     *)
(* reached the end of the list and returns Completed.                      *)
(***************************************************************************)
C5_SourceOrder ==
  LET L     == call.log
      start == IF call.kind = "resume" THEN call.from ELSE 0
  IN  /\ \A k \in DOMAIN L :
           /\ L[k].i = start + k - 1
           /\ L[k].out = "ok" => L[k].after = L[k].i + 1
           /\ L[k].out # "ok" => L[k].after = L[k].i
           /\ k < Len(L) => L[k].out = "ok"
      /\ (L # << >> /\ Last(L).out = "ok") =>
           (Last(L).after = Len(Script) /\ result.type = "completed")
      /\ result.type = "completed" =>
           \/ L = << >> /\ Script = << >>
           \/ L # << >> /\ Last(L).out = "ok"
      /\ result.type = "paused" => (L # << >> /\ Last(L).out = "pause")
      /\ result.type = "error" => (L # << >> /\ Last(L).out \in {"error", "failed"})
      /\ (call.kind # "none" /\ ~call.fresh) =>
           vm.currentStatementIndex = IF L = << >> THEN 0 ELSE Last(L).after

C5_Witness ==
  /\ call.kind = "resume"
  /\ Len(call.log) = 3
  /\ call.log[1].i = 0 /\ call.log[3].i = 2
  /\ result.type = "paused"

C7_ResumeAdvances ==
  call.kind = "resume" =>
    LET L == call.log
        c == call.from
    IN  /\ L # << >>
        /\ L[1].replay /\ L[1].i = c /\ L[1].out \in {"ok", "error"}
        /\ L[1].out = "ok" => L[1].after = c + 1
        /\ \A k \in 2..Len(L) : ~L[k].replay /\ L[k].i = c + k - 1
        /\ IsSingleFetch(Script[c + 1]) =>
             (L[1].out = "ok" /\ L[1].value = call.data /\ L[1].fetches = 0)
        /\ result.type = "paused" => result.state.currentStatementIndex > c
        /\ result.type = "completed" => Last(L).after = Len(Script)

C7_Witness ==
  /\ call.kind = "resume"
  /\ call.from = 0
  /\ call.log[1].out = "ok"
  /\ result.type = "paused"
  /\ result.state.currentStatementIndex = 2

(***************************************************************************)
(* C8.  When the interpreter reports an exception for a statement, during  *)
(* execute or during resume (the replay included), that evaluation is the  *)
(* last one of the call and the call throws: it returns neither Completed  *)
(* nor Paused, and no snapshot and no fetch request.                       *)
(***************************************************************************)
C8_EvalErrorPropagates ==
  /\ \A k \in DOMAIN call.log :
       call.log[k].out = "error" =>
         /\ k = Len(call.log)
         /\ result.type = "error"
         /\ result.state = NoState
         /\ result.fetchRequest = NoRequest
  /\ (call.kind = "execute" /\ Script # << >> /\ Script[1] = Throw) => RaisedAt(0)

C8_Witness ==
  /\ call.kind = "resume"
  /\ Len(call.log) = 1
  /\ call.log[1].replay
  /\ RaisedAt(call.from)

(***************************************************************************)
(* C9.  A Completed result carries the value of the last statement         *)
(* evaluated, which is the last statement of the list (in resume the       *)
(* replay, when the paused statement is the last one); an empty statement  *)
(* list completes with undefined.                                          *)
(***************************************************************************)
C9_CompletedValue ==
  result.type = "completed" =>
    /\ IF call.log = << >>
       THEN Script = << >> /\ result.result = Undef
       ELSE /\ Last(call.log).i = Len(Script) - 1
            /\ Last(call.log).out = "ok"
            /\ result.result = Last(call.log).value
    /\ (Script # << >> /\ Last(Script) = ExprStmt(Lit(1))) => result.result = Num(1)
    /\ (call.kind = "resume" /\ call.from = Len(Script) - 1
          /\ IsSingleFetch(Last(Script))) => result.result = call.data

C9_Witness ==
  /\ call.kind = "resume"
  /\ call.from = Len(Script) - 1
  /\ Len(call.log) = 1
  /\ call.data = Num(42)
  /\ result = Completed(Num(42))

(***************************************************************************)
(* C10.  The fetch request of a Paused result is the descriptor of the     *)
(* fetch call whose marker was found: its id is the request id encoded in  *)
(* that marker.                                                            *)
(***************************************************************************)
C10_RequestOfDetectedMarker ==
  result.type = "paused" =>
    result.fetchRequest.id = FetchIdOf(Last(call.log).found)

(***************************************************************************)
(* C11.  After a statement has been evaluated without a pause, none of the *)
(* names it declares holds a sentinel: a declaration pauses when any one   *)
(* of its bindings holds a sentinel, whatever the value of the statement.  *)
(* (Stated for the last statement evaluated by a call on the caller's      *)
(* engine, whose global scope is the one the statement left behind.)       *)
(***************************************************************************)
C11_DeclaredSentinelPauses ==
  (call.kind # "none" /\ ~call.fresh /\ call.log # << >>
     /\ Last(call.log).out = "ok" /\ ~Last(call.log).replay) =>
    LET declared == ExtractVariableNames(Script[Last(call.log).i + 1])
    IN  \A k \in DOMAIN declared : ~IsPauseMarker(vm.globals[declared[k]])

(***************************************************************************)
(* C12.  A resume returns what a resume of the same snapshot returns for   *)
(* any other response with the same data, whatever its id, success flag    *)
(* and status: a response naming no pending request and reporting a        *)
(* failure is treated like the response built from the request.            *)
(***************************************************************************)
ResumeResult(fetchResponse, fresh, now) ==
  IF fresh THEN ResumeExecution(result.state, fetchResponse, now).res
  ELSE Resume(vm, result.state, fetchResponse, now).res

C12_ResponseIdentityIgnored ==
  [][ call'.kind = "resume" =>
        \A other \in FetchResponses(result.fetchRequest) :
          other.data = call'.data =>
            result' = ResumeResult(other, call'.fresh, clock') ]_vars

C12_Witness ==
  /\ call.kind = "resume"
  /\ ~call.genuine
  /\ call.data = Num(42)
  /\ result = Completed(Num(42))

(***************************************************************************)
(* C13.  The result types and the request URLs of the run are those of a   *)
(* second run of the same source in the same deployment shape, driven by   *)
(* the same responses in the same order and made at another time (so that  *)
(* its request ids differ, and the ids of the responses match none of its  *)
(* pending requests).                                                      *)
(***************************************************************************)
\* a time at which no call of the run is made
RerunClock == MaxClock + 1

FirstCall(fresh, source) ==
  IF fresh THEN ExecuteCode(source, RerunClock) ELSE Execute(NewVM, source, RerunClock)

NextCall(fresh, ret, data) ==
  IF fresh
  THEN ResumeExecution(ret.res.state, FetchResponse(NoSuchRequest, TRUE, 200, data),
                       RerunClock)
  ELSE Resume(ret.vm, ret.res.state, FetchResponse(NoSuchRequest, TRUE, 200, data),
              RerunClock)

\* the second run from the call that returned ret on: the types of its
\* results, the URLs of its requests, and the responses it had no use for
RECURSIVE Rerun(_, _, _, _, _)
Rerun(fresh, ret, given, types, urls) ==
  IF ret.res.type = "paused" /\ given # << >>
  THEN Rerun(fresh, NextCall(fresh, ret, Head(given)), Tail(given),
             Append(types, "paused"), Append(urls, ret.res.fetchRequest.url))
  ELSE [ types  |-> Append(types, ret.res.type),
         urls   |-> IF ret.res.type = "paused"
                    THEN Append(urls, ret.res.fetchRequest.url) ELSE urls,
         unused |-> Len(given) ]

C13_Determinism ==
  call.kind # "none" =>
    Rerun(call.fresh, FirstCall(call.fresh, code), responses, << >>, << >>)
      = [ types  |-> Append([k \in 1..Len(responses) |-> "paused"], result.type),
          urls   |-> [k \in 1..Len(pauses) |-> pauses[k].url],
          unused |-> 0 ]

C13_Witness ==
  /\ code = ScenarioB
  /\ Len(responses) = 2
  /\ responses[1] # responses[2]
  /\ pauses[1].id.now # RerunClock
  /\ result.type = "completed"

(***************************************************************************)
(* C14.  The snapshot of a Paused result, restored into a fresh engine and *)
(* captured again at once, gives the same binding mapping, statement list, *)
(* cursor and code; and every binding the mapping holds has the value the  *)
(* binding has in the engine that was captured.                            *)
(***************************************************************************)
C14_RoundTrip ==
  result.type = "paused" =>
    LET first == result.state
        again == GetCurrentState(RestoreState(NewVM, first))
    IN  /\ again.variables = first.variables
        /\ again.statements = first.statements
        /\ again.currentStatementIndex = first.currentStatementIndex
        /\ again.code = first.code
        /\ ~call.fresh =>
             \A n \in Names :
               first.variables[n] # Absent => first.variables[n] = vm.globals[n]

C14_Witness ==
  /\ result.type = "paused"
  /\ ~call.fresh
  /\ result.state.variables["x"] = Obj(7)
  /\ IsPauseMarker(result.state.variables["y"])
  /\ result.state.currentStatementIndex = 1

(***************************************************************************)
(* C15.  A resume of a snapshot with cursor c evaluates only statements    *)
(* with index c or more, each once; the fetch interceptor is invoked only  *)
(* by those evaluations (the request counter of the engine grows by their  *)
(* calls and by nothing else, so the counter in the id of the next request *)
(* counts no fetch of an earlier statement); the replay invokes it not at  *)
(* all, and a later statement at most once per fetch call of its text.     *)
(***************************************************************************)
FetchCallsOfExpr(e) ==
  CASE e.op \in {"fetch", "fetchprop", "fetchor"} -> 1
    [] e.op = "firstof" -> 2
    [] OTHER -> 0

RECURSIVE FetchCallsOfDecls(_)
FetchCallsOfDecls(ds) ==
  IF ds = << >> THEN 0 ELSE FetchCallsOfExpr(Head(ds).e) + FetchCallsOfDecls(Tail(ds))

\* the calls of fetch a full evaluation of the statement makes
FetchCallsOf(s) ==
  CASE s.kind \in {"expr", "assign"} -> FetchCallsOfExpr(s.e)
    [] s.kind = "decl" -> FetchCallsOfDecls(s.decls)
    [] s.kind = "for" -> LoopCount
    [] OTHER -> 0

RECURSIVE SumFetches(_)
SumFetches(log) ==
  IF log = << >> THEN 0 ELSE Head(log).fetches + SumFetches(Tail(log))

C15_ResumeFromCursorOnly ==
  [][ call'.kind = "resume" =>
        LET c == result.state.currentStatementIndex
            L == call'.log
        IN  /\ \A k \in DOMAIN L : L[k].i >= c
            /\ \A j, k \in DOMAIN L : j < k => L[j].i < L[k].i
            /\ \A k \in DOMAIN L :
                 L[k].fetches <= IF L[k].replay THEN 0
                                 ELSE FetchCallsOf(result.state.statements[L[k].i + 1])
            /\ ~call'.fresh => vm'.fetchCounter = vm.fetchCounter + SumFetches(L)
            /\ result'.type = "paused" =>
                 result'.fetchRequest.id.c =
                   (IF call'.fresh THEN 0 ELSE vm.fetchCounter) + SumFetches(L) ]_vars

C15_Witness ==
  /\ code = ScenarioB
  /\ call.kind = "resume"
  /\ call.from = 2
  /\ Len(call.log) = 2
  /\ ~call.fresh
  /\ vm.fetchCounter = 2
  /\ result.type = "completed"

(***************************************************************************)
(* C16.  For a source that is not valid JavaScript, execute makes the      *)
(* whole source, unchanged, the one statement of the list and evaluates    *)
(* it: the call evaluates exactly statement 0, and fails with the          *)
(* interpreter's error for it; no part of the source has run on its own.   *)
(***************************************************************************)
C16_InvalidSourceFallsBack ==
  (call.kind = "execute" /\ \E k \in DOMAIN code : code[k] = Garbage) =>
    /\ Len(call.log) = 1
    /\ call.log[1].i = 0
    /\ call.log[1].out = "error"
    /\ RaisedAt(0)
    /\ ~call.fresh =>
         /\ vm.statements = <<Unparsed(code)>>
         /\ vm.currentStatementIndex = 0
         /\ vm.globals = NoGlobals

C16_Witness ==
  /\ code = InvalidAfterValid
  /\ call.kind = "execute"
  /\ ~call.fresh
  /\ vm.statements = <<Unparsed(InvalidAfterValid)>>
  /\ result = Thrown

(***************************************************************************)
(* C17 (as stated).  After an execute on an engine instance, the statement *)
(* list of the engine is the segmentation of the accumulated text of all   *)
(* submissions, and the call started at cursor 0.                          *)
(***************************************************************************)
C17_AccumulatedTextSegmented ==
  (call.kind = "execute" /\ ~call.fresh) =>
    /\ vm.statements = ParseCodeIntoStatements(vm.allCode)
    /\ call.log # << >> => call.log[1].i = 0

(***************************************************************************)
(* C17 (amended).  Every execute on an engine instance appends a line      *)
(* break and the submission to the accumulated text, makes the statement   *)
(* list the segmentation of that submission alone, and drives it from      *)
(* cursor 0; the bindings left by earlier submissions stay readable.       *)
(***************************************************************************)
C17_LatestSubmissionSegmented ==
  [][ (call'.kind = "execute" /\ ~call'.fresh) =>
        /\ vm'.allCode = vm.allCode \o <<Newline>> \o code'
        /\ vm'.statements = ParseCodeIntoStatements(code')
        /\ call'.log # << >> => call'.log[1].i = 0
        /\ Len(call'.log) <= Len(code')
        /\ (vm.globals["x"] = Num(1) /\ code' = <<ExprStmt(Var("x"))>>) =>
             result' = Completed(Num(1)) ]_vars

C17_Witness ==
  /\ vm.allCode = <<Newline, Assign("x", Lit(1)), Newline, ExprStmt(Var("x"))>>
  /\ vm.statements = <<ExprStmt(Var("x"))>>
  /\ call.kind = "execute"
  /\ Len(call.log) = 1
  /\ result = Completed(Num(1))

(***************************************************************************)
(* C18.  A resume of the legacy FetchVM continues the script from the      *)
(* pause: it calls fetch for no code that has already run, the name the    *)
(* script binds to the paused fetch holds the response data afterwards,    *)
(* and it returns Completed only when every fetch call of the script has   *)
(* been paused for.                                                        *)
(***************************************************************************)
C18_FetchVMResumeContinues ==
  call.kind = "resume" =>
    /\ SumFetches(call.log) = 0
    /\ (~call.fresh /\ code # << >> /\ IsFetchBinding(Last(code))) =>
         vm.globals[BoundName(Last(code))] = call.data
    /\ result.type = "completed" => Len(pauses) >= Cardinality(FetchPositions(code))

(***************************************************************************)
(* C19.  Every snapshot of a run carries the statement list segmented from *)
(* the source submitted and the accumulated text (a line break and the     *)
(* source); a resume of a snapshot that pauses again returns a snapshot    *)
(* with the same statement list and the same text, and a greater cursor.   *)
(***************************************************************************)
C19_ScriptImmutable ==
  [][ result'.type = "paused" =>
        /\ result'.state.statements = ParseCodeIntoStatements(code')
        /\ result'.state.code = <<Newline>> \o code'
        /\ result.type = "paused" =>
             /\ result'.state.statements = result.state.statements
             /\ result'.state.code = result.state.code
             /\ result'.state.currentStatementIndex > result.state.currentStatementIndex
      ]_vars

C19_Witness ==
  /\ code = <<Assign("y", Fetch(Url(1))), ExprStmt(Fetch(Url(2)))>>
  /\ call.kind = "resume"
  /\ call.fresh
  /\ Len(pauses) = 2
  /\ result.type = "paused"
  /\ result.state.statements = code
  /\ result.state.code = <<Newline>> \o code
  /\ result.state.variables["y"] = Num(42)

(***************************************************************************)
(* C20.  The binding mapping of a snapshot holds every global binding of   *)
(* the captured engine that has a JSON form (here: every binding whose     *)
(* value is not undefined), with its value.  The names of the scripts are  *)
(* neither interpreter intrinsics nor the engine's internal slots.         *)
(***************************************************************************)
C20_SnapshotComplete ==
  (result.type = "paused" /\ ~call.fresh) =>
    \A n \in Names :
      (OwnProperty(vm, n) # Absent /\ Serializable(vm.globals[n])
         /\ HasJsonForm(vm.globals[n]))
        => result.state.variables[n] = vm.globals[n]

(***************************************************************************)
(* C21.  The binding mapping of a snapshot never contains the reserved     *)
(* slots __fetchPause and __currentFetchData nor the host's fetch and      *)
(* console entries, and capture does not raise: whenever a statement       *)
(* reaches the pause with a pending request the call returns Paused with a *)
(* snapshot, a binding whose value JSON.stringify rejects is left out of   *)
(* the mapping, and when the capture evaluation itself fails the mapping   *)
(* is empty.                                                               *)
(***************************************************************************)
C21_CaptureFiltered ==
  /\ (call.log # << >> /\ Last(call.log).out = "pause") => result.type = "paused"
  /\ result.type = "paused" =>
       LET variables == result.state.variables
       IN  /\ DOMAIN variables = GlobalKeys
           /\ \A key \in ReservedSlots \cup HostEntries : variables[key] = Absent
           /\ \A key \in GlobalKeys : variables[key] # Cyclic
           /\ ~call.fresh =>
                /\ vm.fetchPause # Absent
                /\ ~vm.intrinsics => \A key \in GlobalKeys : variables[key] = Absent

\* the second pause of CaptureCases on one instance: x holds a cyclic object,
\* Object is overwritten, and the snapshot has no binding at all
C21_Witness ==
  /\ code = CaptureCases
  /\ ~call.fresh
  /\ result.type = "paused"
  /\ Len(pauses) = 2
  /\ vm.globals["x"] = Cyclic
  /\ vm.globals["y"] = Num(42)
  /\ ~vm.intrinsics
  /\ vm.fetchPause # Absent
  /\ \A key \in GlobalKeys : result.state.variables[key] = Absent

\* the first pause of CaptureCases: the cyclic binding is dropped, y is kept
C21_WitnessDropped ==
  /\ code = CaptureCases
  /\ ~call.fresh
  /\ result.type = "paused"
  /\ Len(pauses) = 1
  /\ vm.globals["x"] = Cyclic
  /\ result.state.variables["x"] = Absent
  /\ IsPauseMarker(result.state.variables["y"])

(***************************************************************************)
(* C22.  After resume has replayed the paused statement without error, the *)
(* two reserved slots are cleared before a later statement is evaluated:   *)
(* when resume returns Completed neither slot is set on the engine, and    *)
(* when it returns Paused the injected-data slot is not set and the        *)
(* pending-request slot holds the descriptor of a fetch issued after the   *)
(* replay.                                                                 *)
(***************************************************************************)
C22_SlotsClearedAfterReplay ==
  (call.kind = "resume" /\ ~call.fresh /\ call.log # << >> /\ call.log[1].out = "ok") =>
    /\ result.type = "completed" =>
         vm.currentFetchData = Absent /\ vm.fetchPause = Absent
    /\ result.type = "paused" =>
         /\ vm.currentFetchData = Absent
         /\ vm.fetchPause # Absent
         /\ vm.fetchPause.id.c > vm.fetchCounter - SumFetches(Tail(call.log))

(***************************************************************************)
(* C23.  On one engine instance every call of the fetch interceptor adds   *)
(* one to the request counter, returns a sentinel whose request id differs *)
(* from the id of every earlier call on that instance, changes nothing but *)
(* the counter and the pending-request slot, and stores in that slot a     *)
(* descriptor with the id of the sentinel it returns.  Every id issued so  *)
(* far carries a counter value of at most the engine's counter, and the    *)
(* next call issues the counter plus one.                                  *)
(***************************************************************************)
C23_InterceptorIds ==
  (call.kind # "none" /\ ~call.fresh) =>
    /\ \A k \in 1..Len(pauses) : pauses[k].id.c \in 1..vm.fetchCounter
    /\ \A j, k \in 1..Len(pauses) : j < k => pauses[j].id.c < pauses[k].id.c
    /\ \A n \in Names :
         IsPauseMarker(vm.globals[n]) => FetchIdOf(vm.globals[n]).c \in 1..vm.fetchCounter
    /\ vm.fetchPause # Absent => vm.fetchPause.id.c \in 1..vm.fetchCounter
    /\ \A k \in 1..Len(call.log) :
         call.log[k].found # Absent => FetchIdOf(call.log[k].found).c \in 1..vm.fetchCounter
    /\ \A now \in 0..MaxClock, url \in {Url(1), Url(2)} :
         LET f == FetchFunc(vm, now, url)
         IN  /\ ~f.err
             /\ f.vm.fetchCounter = vm.fetchCounter + 1
             /\ IsPauseMarker(f.v)
             /\ FetchIdOf(f.v) = f.vm.fetchPause.id
             /\ FetchIdOf(f.v).c = f.vm.fetchCounter
             /\ f.vm.fetchPause.url = url
             /\ f.vm = [vm EXCEPT !.fetchCounter = f.vm.fetchCounter,
                                  !.fetchPause = f.vm.fetchPause]

\* three calls of the interceptor on one instance at the same time of day, two
\* of them reported as requests, with three different ids
C23_Witness ==
  /\ ~call.fresh
  /\ vm.fetchCounter = 3
  /\ Len(pauses) = 2
  /\ pauses[1].id.now = pauses[2].id.now
  /\ pauses[1].id # pauses[2].id
  /\ vm.fetchPause # Absent
  /\ vm.fetchPause.id \notin {pauses[1].id}

(***************************************************************************)
(* C24.  A failure to write into the interpreter is fatal for resume: when *)
(* the evaluation that assigns the snapshot's bindings to the global scope *)
(* fails, resume throws and evaluates no statement.  (The evaluation that  *)
(* assigns the response data does not fail for any response here.)         *)
(***************************************************************************)
C24_InjectionFailureFatal ==
  [][ (call'.kind = "resume" /\ ~call'.fresh /\ RestoreFails(vm, result.state))
        => (result'.type = "error" /\ call'.log = << >>) ]_vars

(***************************************************************************)
(* C25.  The two deployment shapes are equivalent for scripts whose state  *)
(* is all JSON-representable: the run on one long-lived engine and the run *)
(* of the same source through the stateless entry points, given the same   *)
(* responses, yield the same result types, the same request URLs and the   *)
(* same final result.                                                      *)
(***************************************************************************)
\* the last return of a run in the given shape from the call that returned ret
\* on, driven by the given response data
RECURSIVE RunTo(_, _, _)
RunTo(fresh, ret, given) ==
  IF ret.res.type = "paused" /\ given # << >>
  THEN RunTo(fresh, NextCall(fresh, ret, Head(given)), Tail(given))
  ELSE ret

\* v has a JSON form of its own (a sentinel is a string and has one)
JsonRepresentable(v) == Serializable(v) /\ HasJsonForm(v)

\* two values agree up to the request id a sentinel carries
SameValue(v, w) == v = w \/ (IsPauseMarker(v) /\ IsPauseMarker(w))

C25_ShapesEquivalent ==
  (call.kind # "none" /\ ~call.fresh
     /\ \A k \in 1..Len(responses) : JsonRepresentable(responses[k])
     /\ \A n \in Names : vm.globals[n] # Absent => JsonRepresentable(vm.globals[n])) =>
    LET other == Rerun(TRUE, FirstCall(TRUE, code), responses, << >>, << >>)
        last  == RunTo(TRUE, FirstCall(TRUE, code), responses)
    IN  /\ other.types = Append([k \in 1..Len(responses) |-> "paused"], result.type)
        /\ other.urls = [k \in 1..Len(pauses) |-> pauses[k].url]
        /\ result.type = "completed" => SameValue(last.res.result, result.result)

(***************************************************************************)
(* C26.  Declared bindings outlive their statement: at a pause on one      *)
(* engine, every name declared by a statement evaluated so far (const, let *)
(* or var with single-identifier declarators, with or without initializer, *)
(* one or several declarators) is a property of the shared global scope;   *)
(* when its value is JSON-representable it is in the snapshot with that    *)
(* value and has that value in a fresh interpreter the snapshot is         *)
(* restored into.                                                          *)
(***************************************************************************)
C26_DeclaredBindingsGlobal ==
  (result.type = "paused" /\ ~call.fresh) =>
    \A i \in 1..(result.state.currentStatementIndex + 1) :
      LET statement == result.state.statements[i]
      IN  statement.kind = "decl" =>
            \A d \in DOMAIN statement.decls :
              LET n == statement.decls[d].name
              IN  /\ OwnProperty(vm, n) # Absent
                  /\ JsonRepresentable(vm.globals[n]) =>
                       /\ result.state.variables[n] = vm.globals[n]
                       /\ RestoreState(NewVM, result.state).globals[n] = vm.globals[n]

(***************************************************************************)
(* C27.  The cursor never advances past a statement whose evaluation       *)
(* yielded a sentinel, on the execute path and on the resume path alike    *)
(* (the replay of the paused statement included): such an evaluation ends  *)
(* the call with the cursor still on that statement.  Consequently no      *)
(* Completed result carries a sentinel string as its value.                *)
(***************************************************************************)
C27_SentinelNeverPassed ==
  /\ \A k \in 1..Len(call.log) :
       IsPauseMarker(call.log[k].value) =>
         /\ call.log[k].after = call.log[k].i
         /\ k = Len(call.log)
         /\ result.type \in {"paused", "error"}
  /\ result.type = "completed" => ~IsPauseMarker(result.result)

(***************************************************************************)
(* C28.  resume leaves the snapshot passed to it unchanged: its code, its  *)
(* statement list, its cursor and its binding mapping are the same after   *)
(* the call as before, whether the call completes, pauses again or throws. *)
(* Nothing marks a snapshot as consumed: resuming the same snapshot a      *)
(* second time with the same response through the stateless entry point    *)
(* yields the same result as the first time (at another time of day, the   *)
(* same result up to the request ids: same type, URL and cursor).          *)
(***************************************************************************)
C28_SnapshotUnchanged ==
  [][ call'.kind = "resume" =>
        \A fetchResponse \in {FetchResponse(NoSuchRequest, TRUE, 200, call'.data)} :
          \A first \in {IF call'.fresh
                        THEN ResumeExecution(result.state, fetchResponse, clock')
                        ELSE Resume(vm, result.state, fetchResponse, clock')} :
            \A snapshot \in {SnapshotAfterResume(result.state, first)} :
              /\ first.res = result'
              /\ snapshot = result.state
              /\ call'.fresh =>
                   /\ ResumeExecution(snapshot, fetchResponse, clock').res = result'
                   /\ \A again \in {ResumeExecution(snapshot, fetchResponse, RerunClock).res} :
                        /\ again.type = result'.type
                        /\ again.type = "completed" =>
                             SameValue(again.result, result'.result)
                        /\ again.type = "paused" =>
                             /\ again.fetchRequest.url = result'.fetchRequest.url
                             /\ again.state.currentStatementIndex
                                  = result'.state.currentStatementIndex
                             /\ again.state.statements = result'.state.statements ]_vars

\* a stateless resume of the first snapshot of scenario B has paused again
C28_Witness ==
  /\ code = ScenarioB
  /\ call.kind = "resume"
  /\ call.fresh
  /\ result.type = "paused"
  /\ Len(pauses) = 2
  /\ result.state.currentStatementIndex = 2

(***************************************************************************)
(* C29.  Over a whole run, from execute through the resumes to Completed,  *)
(* every statement that did not trigger a pause is evaluated exactly once, *)
(* and every statement that triggered a pause exactly twice: once when the *)
(* sentinel was detected and once as the replay of resume.                 *)
(***************************************************************************)
EvaluationsOf(i) == { k \in DOMAIN evaluated : evaluated[k].i = i }

C29_EvaluatedOnceOrTwice ==
  (call.kind # "none" /\ result.type = "completed") =>
    \A i \in 0..(Len(Script) - 1) :
      LET ks == EvaluationsOf(i)
      IN  IF \E k \in ks : evaluated[k].pause
          THEN \E k1, k2 \in ks :
                 /\ k1 < k2
                 /\ ks = {k1, k2}
                 /\ evaluated[k1].pause /\ ~evaluated[k1].replay
                 /\ evaluated[k2].replay /\ ~evaluated[k2].pause
          ELSE \E k \in ks : ks = {k} /\ ~evaluated[k].replay

\* scenario B run to Completed: statements 0 and 2 paused and were evaluated
\* twice, statements 1 and 3 once
C29_Witness ==
  /\ code = ScenarioB
  /\ result.type = "completed"
  /\ Len(evaluated) = 6
  /\ Cardinality(EvaluationsOf(0)) = 2
  /\ Cardinality(EvaluationsOf(1)) = 1
  /\ Cardinality(EvaluationsOf(2)) = 2
  /\ Cardinality(EvaluationsOf(3)) = 1

(***************************************************************************)
(* C30.  As claimed: every run terminates.  A single execute or resume     *)
(* call evaluates at most length(statements) statements, a run over n      *)
(* statements yields at most n Paused results, and when the caller resumes *)
(* each Paused result the run eventually returns Completed or ends with an *)
(* evaluation error.                                                       *)
(***************************************************************************)
RunBounded ==
  /\ Len(call.log) <= Len(Script)
  /\ Len(pauses) <= Len(Script)
  /\ \A j, k \in DOMAIN call.log : j < k => call.log[j].i < call.log[k].i

C30_EveryRunTerminates ==
  /\ []RunBounded
  /\ (call.kind # "none") ~> (result.type \in {"completed", "error"})

(***************************************************************************)
(* C30, amended.  A run terminates provided every evaluation of a          *)
(* statement returns: the bounds on evaluations and Paused results hold    *)
(* always, and when the caller resumes each Paused result the run          *)
(* eventually returns Completed, ends with an evaluation error, or is in a *)
(* call that evaluates a statement which never returns.                    *)
(***************************************************************************)
C30_RunTerminatesIfEvaluationsReturn ==
  /\ []RunBounded
  /\ (call.kind # "none") ~> (result.type \in {"completed", "error", "hung"})

\* scenario B run to Completed after as many pauses as it has fetch statements
C30_Witness ==
  /\ code = ScenarioB
  /\ result.type = "completed"
  /\ Len(pauses) = 2
  /\ Len(call.log) = 2
  /\ Len(responses) = 2

\* the names a statement assigns when it is evaluated
WrittenNames(statement) ==
  CASE statement.kind = "assign" -> {statement.name}
    [] statement.kind \in {"decl", "comma"} ->
         {statement.decls[k].name : k \in DOMAIN statement.decls}
    [] statement.kind \in {"defineconst", "cyclic"} -> {statement.name}
    [] statement.kind = "for" -> Names
    [] OTHER -> {}

\* The engine as it is when a call that starts in engine with the statement
\* list given (execute) or with the snapshot state and the data given (resume)
\* is about to evaluate statement k: the statements before k have been
\* evaluated by the call.
BeforeStatement(engine, kind, statements, state, data, k, now) ==
  IF kind = "execute"
  THEN ExecuteNextStatement(
         [engine EXCEPT !.statements = SubSeq(statements, 1, k),
                        !.currentStatementIndex = 0], now, << >>).vm
  ELSE IF k = state.currentStatementIndex
  THEN RestoreAndInject(engine, state, FetchResponse(NoSuchRequest, TRUE, 200, data))
  ELSE Resume(engine, [state EXCEPT !.statements = SubSeq(state.statements, 1, k)],
              FetchResponse(NoSuchRequest, TRUE, 200, data), now).vm

\* a call on the engine instance ends this step with an evaluation error
FailsWithEvaluationError ==
  /\ call'.kind # "none"
  /\ ~call'.fresh
  /\ result' = Thrown
  /\ call'.log # << >>
  /\ Last(call'.log).out = "error"

\* the failed call left the cursor at the failing statement, the bindings of
\* the statements evaluated before it in place, and (resume) the snapshot's
\* code and statement list in the engine
LeftAsFailed ==
  LET k      == Last(call'.log).i
      before == BeforeStatement(vm, call'.kind, ParseCodeIntoStatements(code'),
                                result.state, call'.data, k, clock')
  IN  /\ vm'.currentStatementIndex = k
      /\ k < Len(vm'.statements)
      /\ \A n \in Names :
           before.globals[n] # Absent =>
             /\ vm'.globals[n] # Absent
             /\ n \notin WrittenNames(vm'.statements[k + 1]) =>
                  vm'.globals[n] = before.globals[n]
      /\ call'.kind = "resume" =>
           /\ vm'.allCode = result.state.code
           /\ vm'.statements = result.state.statements
           /\ k >= result.state.currentStatementIndex

(***************************************************************************)
(* C31.  As claimed: a failed call is not rolled back on a long-lived      *)
(* engine instance.  After execute or resume fails with an evaluation      *)
(* error at statement k the cursor is k, the bindings written by the       *)
(* statements evaluated before k in that call remain, and for resume the   *)
(* engine's code, statement list and cursor are the snapshot's and the     *)
(* injected-data slot is still set.                                        *)
(***************************************************************************)
C31_FailedCallNotRolledBack ==
  [][FailsWithEvaluationError =>
       /\ LeftAsFailed
       /\ call'.kind = "resume" => vm'.currentFetchData # Absent]_vars

(***************************************************************************)
(* C31, amended.  A failed call is not rolled back: the cursor is k, the   *)
(* earlier bindings remain, for resume the code and the statement list are *)
(* the snapshot's, and the injected-data slot still holds the data when    *)
(* the failing statement is the replayed one; when a later statement       *)
(* fails, the slot has been deleted after the replay.                      *)
(***************************************************************************)
C31_FailedCallLeftInPlace ==
  [][FailsWithEvaluationError =>
       /\ LeftAsFailed
       /\ call'.kind = "resume" =>
            IF Last(call'.log).i = result.state.currentStatementIndex
            THEN vm'.currentFetchData = call'.data
            ELSE vm'.currentFetchData = Absent]_vars

\* a resume on the instance failed in the replay of a statement that is not the
\* first: the cursor is still at it, the list is the script's and the injected
\* data is still in its slot
C31_Witness ==
  /\ call.kind = "resume"
  /\ ~call.fresh
  /\ RaisedAt(call.from)
  /\ call.from > 0
  /\ vm.currentStatementIndex = call.from
  /\ vm.statements = Script
  /\ vm.currentFetchData = call.data

\* a resume on the instance failed in the statement after the replay: the
\* binding the replay wrote remains and the slot has been deleted
C31_WitnessLater ==
  /\ call.kind = "resume"
  /\ ~call.fresh
  /\ RaisedAt(call.from + 1)
  /\ vm.currentStatementIndex = call.from + 1
  /\ vm.globals["x"] = Undef
  /\ vm.currentFetchData = Absent

\* an execute on the instance failed in its second statement: the binding the
\* first statement wrote remains
C31_WitnessExecute ==
  /\ call.kind = "execute"
  /\ ~call.fresh
  /\ RaisedAt(1)
  /\ vm.currentStatementIndex = 1
  /\ vm.globals["x"] = Num(1)

(***************************************************************************)
(* A caller that keeps snapshots ("an unresumed Snapshot is inert data")   *)
(* and restores one into its long-lived engine later, when the interpreter *)
(* has moved on.                                                           *)
(***************************************************************************)
RestoreScripts == {ScenarioA, ScenarioB, UnderscoreName, CaptureCases}

\* vm.execute(source) on the caller's engine, for the scripts above
DoExecuteScript ==
  /\ call.kind = "none"
  /\ \E source \in RestoreScripts, now \in clock..MaxClock :
       \E ret \in {Execute(vm, source, now)} :
           /\ vm' = ret.vm
           /\ code' = source
           /\ call' = [kind |-> "execute", fresh |-> FALSE, from |-> 0,
                       data |-> Undef, genuine |-> TRUE, log |-> ret.log]
           /\ clock' = now
           /\ Record(ret)
           /\ UNCHANGED responses

\* the caller keeps the snapshot of the Paused result at hand
DoKeep ==
  /\ result.type = "paused"
  /\ held # result.state
  /\ held' = result.state
  /\ UNCHANGED <<vm, code, result, call, pauses, responses, evaluated, clock,
                 inflight, contexts>>

\* vm.restoreState(held) on the caller's engine
DoRestoreState ==
  /\ held # NoState
  /\ vm' = RestoreState(vm, held)
  /\ call' = [kind |-> "restore", fresh |-> FALSE,
              from |-> held.currentStatementIndex, data |-> Undef,
              genuine |-> TRUE, log |-> << >>]
  /\ UNCHANGED <<code, result, pauses, responses, evaluated, clock,
                 held, inflight, contexts>>

NextRestore == DoExecuteScript \/ DoResume \/ DoKeep \/ DoRestoreState

SpecRestore == Init /\ [][NextRestore]_vars

\* this step is a call of restoreState with the snapshot held
RestoreStep == call'.kind = "restore" /\ held' = held /\ result' = result

\* the snapshot names a binding the interpreter holds with another value, and
\* the interpreter has a binding the snapshot does not name
StaleSnapshot(engine, state) ==
  /\ \E n \in Names : state.variables[n] # Absent /\ engine.globals[n] # state.variables[n]
  /\ \E n \in Names : state.variables[n] = Absent /\ engine.globals[n] # Absent

(***************************************************************************)
(* C32.  Restoring a snapshot into a long-lived interpreter merges: every  *)
(* binding named in the snapshot takes the snapshot's value, and a global  *)
(* binding of the interpreter that is absent from the snapshot keeps its   *)
(* value.                                                                  *)
(***************************************************************************)
C32_RestoreMerges ==
  [][RestoreStep =>
       \A n \in Names :
         vm'.globals[n] = IF held.variables[n] # Absent
                          THEN held.variables[n] ELSE vm.globals[n]]_vars

\* a restore wrote the bindings of a stale snapshot and left the interpreter
\* with a binding the snapshot does not name: a strict superset
C32_WitnessSuperset ==
  /\ call.kind = "restore"
  /\ \A n \in Names : held.variables[n] # Absent => vm.globals[n] = held.variables[n]
  /\ \E n \in Names : held.variables[n] = Absent /\ vm.globals[n] # Absent
  /\ vm.globals["x"] # result.state.variables["x"]

\* a restore of a stale snapshot left a binding the snapshot names with the
\* value it had in the interpreter
C32_WitnessNotWritten ==
  /\ call.kind = "restore"
  /\ \E n \in Names : held.variables[n] # Absent /\ vm.globals[n] # held.variables[n]

\* the merge, for the restores whose Object.assign evaluation reports no error
C32_RestoreMergesIfAssigned ==
  [][(RestoreStep /\ ~RestoreFails(vm, held)) =>
       \A n \in Names :
         vm'.globals[n] = IF held.variables[n] # Absent
                          THEN held.variables[n] ELSE vm.globals[n]]_vars

(***************************************************************************)
(* Concurrent use of one engine: the caller issues a call without awaiting *)
(* the promise of the one before (p1 = vm.execute(a); p2 = vm.execute(b)). *)
(* An async function runs synchronously up to its first await; what is     *)
(* left of it runs in a later turn, and so does the settling of its        *)
(* promise.  A call in flight is a frame: its id, its kind, whether it is  *)
(* suspended with statements left to evaluate, the result it will settle   *)
(* with, and the cursor and the statement list as it left them.            *)
(***************************************************************************)
ConcurrentScripts == {ScenarioA, ScenarioB, LoopTest, InvalidAfterValid}

Min(a, b) == IF a < b THEN a ELSE b

\* mutant: the next statement is evaluated in a later turn
\* (return await this.executeNextStatement() behind a yield to the event loop)
SegmentEndAwaiting(engine) ==
  Min(engine.currentStatementIndex + 1, Len(engine.statements))

\* The index at which the synchronous run of executeNextStatement ends.  The
\* function has no await: the next statement is evaluated by a plain call,
\* return this.executeNextStatement(), so the run goes on to the end of the
\* list (or returns earlier with a pause or an exception).
SegmentEnd(engine) == Len(engine.statements)

\* the result with the statement list of its snapshot given
WithStatements(res, statements) ==
  IF res.type = "paused"
  THEN [res EXCEPT !.state = [res.state EXCEPT !.statements = statements]]
  ELSE res

\* what a synchronous run that evaluated up to the index end leaves behind
Segment(ret, statements) ==
  LET after == [ret.vm EXCEPT !.statements = statements]
  IN  [vm        |-> after,
       res       |-> WithStatements(ret.res, statements),
       log       |-> ret.log,
       suspended |-> /\ ret.res.type = "completed"
                     /\ after.currentStatementIndex < Len(statements)]

\* executeNextStatement() up to its first suspension
RunSegment(engine, now) ==
  Segment(ExecuteNextStatement(
            [engine EXCEPT !.statements =
               SubSeq(engine.statements, 1, SegmentEnd(engine))], now, << >>),
          engine.statements)

\* execute(code) up to its first suspension
ExecuteSegment(engine, source, now) ==
  RunSegment([engine EXCEPT !.allCode = engine.allCode \o <<Newline>> \o source,
                            !.statements = ParseCodeIntoStatements(source),
                            !.currentStatementIndex = 0], now)

\* resume(state, fetchResponse) up to its first suspension
ResumeSegment(engine, state, fetchResponse, now) ==
  LET end == Min(Len(state.statements),
                 SegmentEnd([engine EXCEPT !.statements = state.statements,
                                           !.currentStatementIndex =
                                             state.currentStatementIndex]))
  IN  Segment(Resume(engine,
                     [state EXCEPT !.statements = SubSeq(state.statements, 1, end)],
                     fetchResponse, now),
              state.statements)

Issued == IF call.kind = "none" THEN 0 ELSE call.id

Frame(id, kind, seg) ==
  [id |-> id, kind |-> kind, suspended |-> seg.suspended, res |-> seg.res,
   cursor |-> seg.vm.currentStatementIndex, statements |-> seg.vm.statements]

\* the evaluations of a synchronous run, with the call that made them
EvaluationsBy(id, log) ==
  [k \in 1..Len(log) |->
     [i |-> log[k].i, replay |-> log[k].replay, pause |-> (log[k].out = "pause"),
      by |-> id]]

\* the call id issued: the engine runs it up to its first suspension
Issue(kind, seg, now) ==
  /\ vm' = seg.vm
  /\ inflight' = Append(inflight, Frame(Issued + 1, kind, seg))
  /\ evaluated' = evaluated \o EvaluationsBy(Issued + 1, seg.log)
  /\ call' = [kind |-> kind, fresh |-> FALSE, from |-> 0, data |-> Undef,
              genuine |-> TRUE, log |-> seg.log, id |-> Issued + 1]
  /\ clock' = now
  /\ UNCHANGED <<result, pauses, held, contexts>>

\* p = vm.execute(source), not awaited
DoIssueExecute ==
  /\ Issued < MaxCalls
  /\ \E source \in ConcurrentScripts, now \in clock..MaxClock :
       \E seg \in {ExecuteSegment(vm, source, now)} :
           /\ Issue("execute", seg, now)
           /\ code' = source
           /\ UNCHANGED responses

\* p = vm.resume(result.state, fetchResponse), not awaited
DoIssueResume ==
  /\ Issued < MaxCalls
  /\ result.type = "paused"
  /\ \E data \in ResponseData, now \in clock..MaxClock :
       \E seg \in {ResumeSegment(vm, result.state,
                                 FetchResponse(result.fetchRequest.id, TRUE, 200, data),
                                 now)} :
           /\ Issue("resume", seg, now)
           /\ responses' = Append(responses, data)
           /\ UNCHANGED code

Without(frames, k) == SubSeq(frames, 1, k - 1) \o SubSeq(frames, k + 1, Len(frames))

\* A later turn of a call in flight: a suspended call evaluates on from the
\* engine's cursor, a call that has returned settles its promise and the
\* caller has its result.
DoTurn ==
  \E k \in DOMAIN inflight :
    IF inflight[k].suspended
    THEN \E seg \in {RunSegment(vm, clock)} :
           /\ vm' = seg.vm
           /\ inflight' = [inflight EXCEPT ![k] = Frame(inflight[k].id, inflight[k].kind, seg)]
           /\ evaluated' = evaluated \o EvaluationsBy(inflight[k].id, seg.log)
           /\ UNCHANGED <<code, result, call, pauses, responses, clock, held, contexts>>
    ELSE /\ result' = inflight[k].res
         /\ inflight' = Without(inflight, k)
         /\ pauses' = IF inflight[k].res.type = "paused"
                      THEN Append(pauses, inflight[k].res.fetchRequest) ELSE pauses
         /\ UNCHANGED <<vm, code, call, responses, evaluated, clock, held, contexts>>

NextConcurrent == DoIssueExecute \/ DoIssueResume \/ DoTurn

SpecConcurrent == Init /\ [][NextConcurrent]_vars

(***************************************************************************)
(* C33.  Calls on one engine instance are atomic with respect to each      *)
(* other: no call in flight is suspended between two statement             *)
(* evaluations, the evaluations of one call are never interleaved with     *)
(* those of another, and the cursor and the statement list a call has left *)
(* are what it finds when it goes on.                                      *)
(***************************************************************************)
C33_CallsAtomic ==
  /\ \A k \in DOMAIN inflight :
       /\ ~inflight[k].suspended
       /\ inflight[k].suspended =>
            /\ vm.currentStatementIndex = inflight[k].cursor
            /\ vm.statements = inflight[k].statements
  /\ \A a, b, c \in DOMAIN evaluated :
       (a < b /\ b < c /\ evaluated[a].by = evaluated[c].by) =>
         evaluated[b].by = evaluated[a].by

\* two calls are in flight on the engine at once, the first of which evaluated
\* two statements and the second of which replaced the statement list
C33_Witness ==
  /\ Len(inflight) = 2
  /\ inflight[1].id = 1 /\ inflight[2].id = 2
  /\ Cardinality({a \in DOMAIN evaluated : evaluated[a].by = 1}) >= 2
  /\ \E a \in DOMAIN evaluated : evaluated[a].by = 2
  /\ inflight[1].statements # inflight[2].statements
  /\ vm.statements = inflight[2].statements

(***************************************************************************)
(* A caller that takes snapshots itself (vm.getCurrentState() is public),  *)
(* at any time and so also of a finished run, or strips one of its         *)
(* statement list, and resumes from the snapshot it holds.                 *)
(***************************************************************************)
\* held = vm.getCurrentState()
DoGetCurrentState ==
  /\ call.kind # "none"
  /\ held' = GetCurrentState(vm)
  /\ held' # held
  /\ UNCHANGED <<vm, code, result, call, pauses, responses, evaluated, clock,
                 inflight, contexts>>

\* the caller passes the snapshot on without its statement list
DoDropStatements ==
  /\ held # NoState
  /\ "statements" \in DOMAIN held
  /\ held' = [code                  |-> held.code,
              variables             |-> held.variables,
              currentStatementIndex |-> held.currentStatementIndex]
  /\ UNCHANGED <<vm, code, result, call, pauses, responses, evaluated, clock,
                 inflight, contexts>>

\* what the caller has at hand once the resume from the snapshot held returned
ResumedHeld(fresh, fetchResponse, ret, now) ==
  /\ call' = [kind |-> "resume", fresh |-> fresh,
              from |-> held.currentStatementIndex, data |-> fetchResponse.data,
              genuine |-> FALSE, log |-> ret.log, state |-> held]
  /\ clock' = now
  /\ Record(ret)
  /\ responses' = Append(responses, fetchResponse.data)
  /\ UNCHANGED code

\* vm.resume(held, fetchResponse) on the caller's engine
DoResumeHeld ==
  /\ held # NoState
  /\ Len(responses) < MaxCalls
  /\ \E data \in ResponseData, now \in clock..MaxClock :
       \E ret \in {Resume(vm, held, FetchResponse(NoSuchRequest, TRUE, 200, data), now)} :
           /\ vm' = ret.vm
           /\ ResumedHeld(FALSE, FetchResponse(NoSuchRequest, TRUE, 200, data), ret, now)

\* resumeExecution(held, fetchResponse)
DoResumeExecutionHeld ==
  /\ held # NoState
  /\ Len(responses) < MaxCalls
  /\ \E data \in ResponseData, now \in clock..MaxClock :
       \E ret \in {ResumeExecution(held, FetchResponse(NoSuchRequest, TRUE, 200, data), now)} :
           /\ vm' = vm
           /\ ResumedHeld(TRUE, FetchResponse(NoSuchRequest, TRUE, 200, data), ret, now)

NextHeld ==
  \/ DoExecuteScript
  \/ DoGetCurrentState
  \/ DoDropStatements
  \/ DoResumeHeld
  \/ DoResumeExecutionHeld

SpecHeld == Init /\ [][NextHeld]_vars

\* the cursor of the snapshot is not an index of its statement list
CursorPastList(state) == state.currentStatementIndex >= Len(StatementsOf(state))

\* this step is a resume from a held snapshot whose cursor is past its list
ResumesPastList ==
  /\ Len(responses') = Len(responses) + 1
  /\ call'.kind = "resume"
  /\ call'.state = held
  /\ CursorPastList(held)

(***************************************************************************)
(* C34.  resume with a snapshot whose cursor is not a valid statement      *)
(* index fails with an error after the bindings and the response data have *)
(* been written into the interpreter: it returns no ExecutionResult,       *)
(* evaluates no statement and does not advance the cursor.                 *)
(***************************************************************************)
C34_CursorPastListFails ==
  [][ResumesPastList =>
       /\ result' = Thrown
       /\ call'.log = << >>
       /\ evaluated' = evaluated
       /\ ~call'.fresh =>
            /\ vm'.currentStatementIndex = held.currentStatementIndex
            /\ vm'.statements = StatementsOf(held)
            /\ vm'.allCode = held.code
            /\ vm'.fetchCounter = vm.fetchCounter
            /\ vm'.currentFetchData = call'.data
            /\ \A n \in Names :
                 held.variables[n] # Absent => vm'.globals[n] = held.variables[n]]_vars

\* the snapshot of a finished run (cursor == length) was resumed on the engine:
\* the call threw with the binding and the data in the interpreter
C34_Witness ==
  /\ call.kind = "resume"
  /\ "state" \in DOMAIN call
  /\ ~call.fresh
  /\ call.state = held
  /\ "statements" \in DOMAIN held
  /\ Len(held.statements) > 0
  /\ held.currentStatementIndex = Len(held.statements)
  /\ result = Thrown
  /\ call.log = << >>
  /\ held.variables["y"] # Absent
  /\ vm.globals["y"] = held.variables["y"]
  /\ vm.currentFetchData = call.data
  /\ vm.currentStatementIndex = Len(vm.statements)

\* a snapshot of a paused run without its statement list was resumed by
\* resumeExecution: the call threw
C34_WitnessNoList ==
  /\ call.kind = "resume"
  /\ "state" \in DOMAIN call
  /\ call.fresh
  /\ call.state = held
  /\ "statements" \notin DOMAIN held
  /\ held.currentStatementIndex > 0
  /\ result = Thrown

\* the same, with the bindings required only of a restore whose Object.assign
\* evaluation reports no error
C34_CursorPastListFailsIfAssigned ==
  [][ResumesPastList =>
       /\ result' = Thrown
       /\ call'.log = << >>
       /\ evaluated' = evaluated
       /\ ~call'.fresh =>
            /\ vm'.currentStatementIndex = held.currentStatementIndex
            /\ vm'.statements = StatementsOf(held)
            /\ vm'.allCode = held.code
            /\ vm'.fetchCounter = vm.fetchCounter
            /\ vm'.currentFetchData = call'.data
            /\ ~RestoreFails(vm, held) =>
                 \A n \in Names :
                   held.variables[n] # Absent => vm'.globals[n] = held.variables[n]]_vars

(***************************************************************************)
(* Engines and their QuickJS contexts.  An engine is recorded with who     *)
(* owns it, how the call that made it ended (path), whether this.vm still  *)
(* refers to the context, how often the context's dispose was called       *)
(* (disposals), how often the engine's dispose was called (calls) and      *)
(* whether a call of the engine's dispose raised.                          *)
(***************************************************************************)
\* new SequentialFetchVM() and initialize(): this.vm = this.QuickJS.newContext()
NewEngine(owner) ==
  [owner |-> owner, path |-> "none", vm |-> TRUE, disposals |-> 0, calls |-> 0,
   raised |-> FALSE]

\* mutant: the context's dispose is called outside a try block
PropagatesUncaught(throws) == throws

\* try { this.vm.dispose() } catch (e) { }: an exception of the context's
\* dispose does not leave the engine's dispose
Propagates(throws) == FALSE

\* mutant: dispose does not forget the context
DisposeKeepingContext(engine, throws) ==
  [engine EXCEPT !.calls = engine.calls + 1,
                 !.disposals = engine.disposals + 1,
                 !.raised = engine.raised \/ Propagates(throws)]

\* dispose(): if (this.vm) { ...; try { this.vm.dispose() } catch (e) {};
\* this.vm = null }.  throws: the context's dispose raised, which is caught.
Dispose(engine, throws) ==
  IF engine.vm
  THEN [engine EXCEPT !.calls = engine.calls + 1,
                      !.disposals = engine.disposals + 1,
                      !.raised = engine.raised \/ Propagates(throws),
                      !.vm = FALSE]
  ELSE [engine EXCEPT !.calls = engine.calls + 1]

\* mutant: the engine is disposed after the result has been obtained, not in a
\* finally clause
DisposedOnReturn(engine, res, throws) ==
  IF res.type \in {"hung", "error"}
  THEN [engine EXCEPT !.path = res.type]
  ELSE Dispose([engine EXCEPT !.path = res.type], throws)

\* try { return await vm.execute(code) } finally { vm.dispose() }: the engine
\* of a stateless call once the call has ended with res.  A call whose
\* evaluation never returns does not reach the finally clause.
DisposedFinally(engine, res, throws) ==
  IF res.type = "hung"
  THEN [engine EXCEPT !.path = res.type]
  ELSE Dispose([engine EXCEPT !.path = res.type], throws)

\* what the caller has at hand once a stateless call has returned ret
Returned(ret, throws) ==
  /\ result' = ret.res
  /\ evaluated' = evaluated \o Evaluations(ret.log)
  /\ pauses' = IF ret.res.type = "paused"
               THEN Append(pauses, ret.res.fetchRequest) ELSE pauses
  /\ contexts' = Append(contexts, DisposedFinally(NewEngine("call"), ret.res, throws))
  /\ UNCHANGED <<vm, held, inflight>>

\* executeCode(source), with the engine it creates
DoExecuteCodeOnce ==
  /\ call.kind = "none"
  /\ \E source \in Scenarios, now \in clock..MaxClock, throws \in BOOLEAN :
       \E ret \in {ExecuteCode(source, now)} :
           /\ code' = source
           /\ call' = [kind |-> "execute", fresh |-> TRUE, from |-> 0,
                       data |-> Undef, genuine |-> TRUE, log |-> ret.log]
           /\ clock' = now
           /\ Returned(ret, throws)
           /\ UNCHANGED responses

\* resumeExecution(result.state, fetchResponse), with the engine it creates
DoResumeExecutionOnce ==
  /\ result.type = "paused"
  /\ \E fetchResponse \in FetchResponses(result.fetchRequest), now \in clock..MaxClock,
        throws \in BOOLEAN :
       \E ret \in {ResumeExecution(result.state, fetchResponse, now)} :
           /\ call' = [kind |-> "resume", fresh |-> TRUE,
                       from |-> result.state.currentStatementIndex,
                       data |-> fetchResponse.data,
                       genuine |-> (fetchResponse.id = result.fetchRequest.id),
                       log |-> ret.log]
           /\ clock' = now
           /\ Returned(ret, throws)
           /\ responses' = Append(responses, fetchResponse.data)
           /\ UNCHANGED code

\* vm = new SequentialFetchVM(); await vm.initialize(): an engine of the caller
DoInitialize ==
  /\ \A k \in DOMAIN contexts : contexts[k].owner # "caller"
  /\ contexts' = Append(contexts, NewEngine("caller"))
  /\ UNCHANGED <<vm, code, result, call, pauses, responses, evaluated, clock,
                 held, inflight>>

\* vm.dispose() on the caller's engine
DoDispose ==
  \E k \in DOMAIN contexts, throws \in BOOLEAN :
    /\ contexts[k].owner = "caller"
    /\ contexts[k].calls < MaxCalls
    /\ contexts' = [contexts EXCEPT ![k] = Dispose(contexts[k], throws)]
    /\ UNCHANGED <<vm, code, result, call, pauses, responses, evaluated, clock,
                   held, inflight>>

NextDispose ==
  DoExecuteCodeOnce \/ DoResumeExecutionOnce \/ DoInitialize \/ DoDispose

SpecDispose == Init /\ [][NextDispose]_vars

(***************************************************************************)
(* C35.  executeCode and resumeExecution release the interpreter they      *)
(* created on every path (Completed, Paused and error) exactly once per    *)
(* call, and dispose is idempotent: a second dispose on the same engine is *)
(* a no-op and never raises.                                               *)
(***************************************************************************)
C35_DisposedOnce ==
  \A k \in DOMAIN contexts :
    /\ (contexts[k].owner = "call"
          /\ contexts[k].path \in {"completed", "paused", "error"}) =>
         /\ contexts[k].disposals = 1
         /\ contexts[k].calls = 1
         /\ ~contexts[k].vm
    /\ contexts[k].calls >= 1 => (contexts[k].disposals = 1 /\ ~contexts[k].vm)
    /\ ~contexts[k].raised

\* stateless calls have returned Paused and Completed, each with its engine
\* disposed once, and the caller has disposed its own engine twice
C35_Witness ==
  /\ \A path \in {"completed", "paused"} :
       \E k \in DOMAIN contexts :
         /\ contexts[k].owner = "call"
         /\ contexts[k].path = path
         /\ contexts[k].disposals = 1
  /\ \E k \in DOMAIN contexts :
       /\ contexts[k].owner = "caller"
       /\ contexts[k].calls = 2
       /\ contexts[k].disposals = 1

\* a stateless call has thrown and its engine has been disposed once
C35_WitnessError ==
  \E k \in DOMAIN contexts :
    /\ contexts[k].owner = "call"
    /\ contexts[k].path = "error"
    /\ contexts[k].disposals = 1
    /\ ~contexts[k].vm

====
